---- MODULE Spec2Model ----
(***************************************************************************)
(* shellcaster: the command-line dispatcher (shellcaster.py) and the four  *)
(* platform adapters (platforms/facebook.py, linkedin.py, x.py,            *)
(* blogger.py), as state machines.                                         *)
(*                                                                         *)
(* Spec          a dispatcher run: main() from the parsed arguments to the *)
(*               exit of the process.  The adapter behind post_func is     *)
(*               seen from main as main sees it: a call that returns       *)
(*               (True, msg), returns (False, msg) or raises, and that may *)
(*               have stored a new token meanwhile.                        *)
(* SpecAdapters  post(content) of one adapter called directly, step by     *)
(*               step, every network call an event of its own.             *)
(* SpecEnv       utils/env.py: get_env and set_env in any order.           *)
(* SpecEnvRace   two processes in set_env on the same .env file.           *)
(* SpecRefreshCheck  facebook._should_refresh_token on one error dict.     *)
(* SpecTrends    x.get_trends, step by step, called by fetch_x_trends.     *)
(* SpecCompose   crypto_trend_workflow.compose_social_message on one       *)
(*               document and URL.                                         *)
(* SpecWorkflow  crypto_trend_workflow.main, step by step.                 *)
(*                                                                         *)
(* Strings are sequences of chunks (<<"your_", "key">> is "your_key"),     *)
(* wrapped as Str(s); Python's None is the value None.                     *)
(***************************************************************************)
EXTENDS Integers, Sequences, FiniteSets, TLC

VARIABLES
    cli,        \* the parsed arguments and the file --file names
    pc,         \* where main is
    content,    \* main's content
    platforms,  \* main's platforms list
    idx,        \* position of the platform the loop is at (1-based)
    key,        \* position in the required list platform_credentials_ok is at
    exitCode,   \* exit status of the process, None while it runs
    stdout,     \* lines printed to standard output
    trace,      \* history: what main did with each position of the list
    env,        \* the process environment as far as the run has read or set it
    cur,        \* adapter whose post is running ("none" when none is)
    apc,        \* where that post is
    ret,        \* what the last post returned or raised
    events,     \* history: network calls of the running top-level post
    loc,        \* locals of the running post
    depth,      \* linkedin.post: number of nested post calls on the stack
    liToken,    \* linkedin_oauth.token
    xfile,      \* content of .x_token.json
    bfile,      \* content of .blogger_token.json
    now,        \* the clock, in seconds
    calls,      \* number of direct post calls made so far
    writable,   \* the working directory (.env, the token files) can be written
    results,    \* main's results dict, None before main binds it
    dotenv,     \* the lines of the .env file, None when there is no file
    _env_loaded,\* utils/env.py: the flag _env_loaded
    stored,     \* history: name -> value of its last set_env that returned
    crypto_keywords, \* fetch_x_trends: its argument crypto_keywords
    trends      \* fetch_x_trends: what get_trends returned, None before it did

vars == <<cli, pc, content, platforms, idx, key, exitCode, stdout, trace, env,
          cur, apc, ret, events, loc, depth, liToken, xfile, bfile, now, calls, writable,
          results, dotenv, _env_loaded, stored, crypto_keywords, trends>>

mainVars == <<cli, pc, content, platforms, idx, key, exitCode, stdout, trace, results>>
storeVars == <<dotenv, _env_loaded, stored>>
trendVars == <<crypto_keywords, trends>>
adapterVars == <<cur, apc, ret, events, loc, depth, liToken, xfile, bfile, now, calls>>

(***************************************************************************)
(* Bounds of the model.                                                    *)
(***************************************************************************)
MaxPlatforms == 2   \* longest --platform list
MaxDepth == 3       \* nested linkedin.post calls the interpreter's stack holds
MaxCalls == 2       \* direct post calls in one process

(***************************************************************************)
(* Values.                                                                 *)
(***************************************************************************)
None == [none |-> TRUE]
Str(s) == [s |-> s]
Num(n) == [n |-> n]

\* the .env file: absent, or its lines
NoFile == [exists |-> FALSE, lines |-> <<>>]
File(lines) == [exists |-> TRUE, lines |-> lines]

\* Python truthiness of an Optional[str]: None and "" are falsy.
Truthy(v) == v # None /\ v.s # <<>>

\* chunk in val
Contains(v, chunk) == \E i \in 1..Len(v.s) : v.s[i] = chunk

\* val.endswith(chunk)
EndsWith(v, chunk) == Len(v.s) > 0 /\ v.s[Len(v.s)] = chunk

Min(a, b) == IF a < b THEN a ELSE b

Append2(s, a, b) == Append(Append(s, a), b)

(***************************************************************************)
(* utils/env.py: get_env.  A name the run has not read yet is outside      *)
(* DOMAIN env; its value is drawn when get_env first reads it and is the   *)
(* same at every later read.                                               *)
(***************************************************************************)
EnvValues ==
    {None, Str(<<>>), Str(<<"set_", "your_", "key">>), Str(<<"abc">>)}

\* the values get_env(name) may return in environment e
get_env(e, name) == IF name \in DOMAIN e THEN {e[name]} ELSE EnvValues

\* e once name was read as v
Known(e, name, v) == IF name \in DOMAIN e THEN e ELSE e @@ (name :> v)

\* os.environ[var_name] = str_value
Put(e, name, v) == [n \in DOMAIN e \cup {name} |-> IF n = name THEN v ELSE e[n]]

(***************************************************************************)
(* shellcaster.py                                                          *)
(***************************************************************************)
PLATFORM_MAP == <<"facebook", "linkedin", "x", "blogger">>

Known_Platforms == {PLATFORM_MAP[i] : i \in 1..Len(PLATFORM_MAP)}

\* creds of platform_credentials_ok; creds.get(platform, [])
creds(platform) ==
    CASE platform = "facebook" -> <<"FACEBOOK_PAGE_ID", "FACEBOOK_ACCESS_TOKEN">>
      [] platform = "linkedin" -> <<"LINKEDIN_ACCESS_TOKEN", "LINKEDIN_AUTHOR_URN">>
      [] platform = "x" -> <<"X_CONSUMER_KEY", "X_CONSUMER_SECRET",
                             "X_ACCESS_TOKEN", "X_ACCESS_TOKEN_SECRET">>
      [] platform = "blogger" -> <<"BLOGGER_ACCESS_TOKEN", "BLOGGER_BLOG_ID">>
      [] OTHER -> <<>>

\* the test of platform_credentials_ok on one value: the key is refused
CredBad_NoMarker(val) == ~Truthy(val)
CredBad(val) == ~Truthy(val) \/ Contains(val, "your_")

\* p.strip().lower() on the tokens a --platform value is made of
Normalize(tok) ==
    CASE tok = " X " -> "x"
      [] tok = "Facebook" -> "facebook"
      [] OTHER -> tok

RawTokens == {"Facebook", "linkedin", " X ", "blogger", "myspace"}

\* the values of --platform: absent, empty, or a comma-separated list
PlatformArgs ==
    {None} \cup {Str(s) : s \in UNION {[1..n -> RawTokens] : n \in 0..MaxPlatforms}}

\* [p.strip().lower() for p in args.platform.split(',')] if args.platform else all
platform_list_Reversed(arg) ==
    IF Truthy(arg) THEN [i \in 1..Len(arg.s) |-> Normalize(arg.s[Len(arg.s) + 1 - i])]
    ELSE PLATFORM_MAP
platform_list(arg) ==
    IF Truthy(arg) THEN [i \in 1..Len(arg.s) |-> Normalize(arg.s[i])]
    ELSE PLATFORM_MAP

Texts == {Str(<<>>), Str(<<"hello">>)}
Paths == {Str(<<>>), Str(<<"post", ".md">>), Str(<<"post", ".txt">>),
          Str(<<"post", ".md", ".bak">>)}

\* what parse_args accepts: exactly one of --post, --file, --trends
Clis ==
    {c \in [post : Texts \cup {None}, file : Paths \cup {None},
            trends : {None, Str(<<"1">>)}, platform : PlatformArgs,
            readable : BOOLEAN, text : Texts] :
        /\ Cardinality({f \in {"post", "file", "trends"} : c[f] # None}) = 1
        /\ (c.file = None => c.readable /\ c.text = Str(<<>>))
        /\ (~c.readable => c.text = Str(<<>>))}

\* load_post_content: the content, or None where it calls sys.exit(1)
load_post_content_AnySuffix(c) ==
    IF Truthy(c.post) THEN c.post
    ELSE IF Truthy(c.file) THEN
        IF ~c.readable THEN None
        ELSE c.text
    ELSE None
load_post_content(c) ==
    IF Truthy(c.post) THEN c.post
    ELSE IF Truthy(c.file) THEN
        IF ~EndsWith(c.file, ".md") THEN None
        ELSE IF ~c.readable THEN None
        ELSE c.text
    ELSE None

Line(kind, what, val) == [kind |-> kind, what |-> what, val |-> val]
Did(pos, platform, what) == [pos |-> pos, platform |-> platform, what |-> what]

\* main up to the loop: the trends request, load_post_content, the platform list
main_start ==
    /\ pc = "start"
    /\ IF cli.trends # None THEN
            \* show_trends prints the trends or that none were found, and returns
            /\ \E found \in BOOLEAN :
                 stdout' = Append(stdout, Line(IF found THEN "green" ELSE "red",
                                               "trends", cli.trends))
            /\ pc' = "exit"
            /\ exitCode' = Num(0)
            /\ UNCHANGED <<content, platforms, results>>
       ELSE IF load_post_content(cli) = None THEN
            /\ pc' = "exit"
            /\ exitCode' = Num(1)
            /\ UNCHANGED <<content, platforms, stdout, results>>
       ELSE
            /\ content' = load_post_content(cli)
            /\ platforms' = platform_list(cli.platform)
            \* results = {}
            /\ results' = <<>>
            /\ pc' = "loop"
            /\ UNCHANGED <<exitCode, stdout>>
    /\ UNCHANGED <<cli, idx, key, trace, env>>
    /\ UNCHANGED <<adapterVars, writable, storeVars, trendVars>>

\* the position the loop goes to after position i was dealt with as `what`:
\* `continue`, and the end of the try statement, both lead to the next platform
NextIndex_RaiseAborts(i, what) == IF what = "raise" THEN Len(platforms) + 1 ELSE i + 1
NextIndex(i, what) == i + 1

\* for platform in platforms: exhausted, main returns and the process exits 0
main_return ==
    /\ pc = "loop"
    /\ idx > Len(platforms)
    /\ pc' = "exit"
    /\ exitCode' = Num(0)
    /\ UNCHANGED <<cli, content, platforms, idx, key, stdout, trace, env, results>>
    /\ UNCHANGED <<adapterVars, writable, storeVars, trendVars>>

\* post_func = PLATFORM_MAP.get(platform); if not post_func: ... continue
main_unsupported ==
    /\ pc = "loop"
    /\ idx <= Len(platforms)
    /\ platforms[idx] \notin Known_Platforms
    /\ stdout' = Append(stdout, Line("yellow", "unsupported", Str(<<platforms[idx]>>)))
    /\ trace' = Append(trace, Did(idx, platforms[idx], "unsupported"))
    /\ idx' = NextIndex(idx, "unsupported")
    /\ UNCHANGED <<cli, pc, content, platforms, key, exitCode, env, results>>
    /\ UNCHANGED <<adapterVars, writable, storeVars, trendVars>>

\* a known platform: platform_credentials_ok is entered
main_known ==
    /\ pc = "loop"
    /\ idx <= Len(platforms)
    /\ platforms[idx] \in Known_Platforms
    /\ pc' = "check"
    /\ key' = 1
    /\ UNCHANGED <<cli, content, platforms, idx, exitCode, stdout, trace, env, results>>
    /\ UNCHANGED <<adapterVars, writable, storeVars, trendVars>>

\* one turn of the loop of platform_credentials_ok, and main's branch on its result
platform_credentials_ok ==
    /\ pc = "check"
    /\ LET required == creds(platforms[idx]) IN
       IF key > Len(required) THEN
            \* return True
            /\ pc' = "call"
            /\ UNCHANGED <<idx, key, stdout, trace, env>>
       ELSE
            \E val \in get_env(env, required[key]) :
               /\ env' = Known(env, required[key], val)
               /\ IF CredBad(val) THEN
                       \* return False; main prints the skip and continues
                       /\ stdout' = Append2(stdout,
                                       Line("plain", required[key], val),
                                       Line("yellow", "skip", Str(<<platforms[idx]>>)))
                       /\ trace' = Append(trace, Did(idx, platforms[idx], "skipped"))
                       /\ idx' = NextIndex(idx, "skipped")
                       /\ pc' = "loop"
                       /\ key' = 0
                  ELSE
                       /\ stdout' = Append(stdout, Line("plain", required[key], val))
                       /\ key' = key + 1
                       /\ UNCHANGED <<idx, pc, trace>>
    /\ UNCHANGED <<cli, content, platforms, exitCode, results>>
    /\ UNCHANGED <<adapterVars, writable, storeVars, trendVars>>

\* what main can see of a post call: it returns (True, msg) or (False, msg), or raises
PostOutcomes == {"ok", "fail", "raise"}

\* tokens a provider issues
NewTokens == {Str(<<"new1">>)}

\* what a post call may have stored through set_env by the time it ends
StoreEffects(platform, e) ==
    CASE platform = "facebook" ->
            {e} \cup {Put(e, "FACEBOOK_ACCESS_TOKEN", t) : t \in NewTokens}
      [] platform = "linkedin" ->
            {e} \cup {Put(e, "LINKEDIN_ACCESS_TOKEN", t) : t \in NewTokens}
                \cup {Put(Put(e, "LINKEDIN_ACCESS_TOKEN", t), "LINKEDIN_REFRESH_TOKEN", t) :
                        t \in NewTokens}
      [] OTHER -> {e}

\* what a post call may print to standard output before it ends: linkedin's
\* get_session prints the token it holds, the interactive flows of linkedin, x
\* and blogger print that they open the browser
AdapterLines(platform, e) ==
    CASE platform = "linkedin" ->
            LET held == Line("plain", "LinkedIn token", e["LINKEDIN_ACCESS_TOKEN"])
                opening == Line("plain", "Opening browser", Str(<<"linkedin">>))
                success == Line("plain", "Successfully authenticated", Str(<<"linkedin">>))
            IN  {<<held>>, <<held, opening>>, <<held, opening, success>>}
      [] platform \in {"x", "blogger"} ->
            {<<>>, <<Line("plain", "Opening browser", Str(<<platform>>))>>}
      [] OTHER -> {<<>>}

\* try: success, msg = post_func(content): the call
main_call ==
    /\ pc = "call"
    /\ pc' = "adapter"
    /\ trace' = Append(trace, Did(idx, platforms[idx], "call"))
    /\ UNCHANGED <<cli, content, platforms, idx, key, exitCode, stdout, env, results>>
    /\ UNCHANGED <<adapterVars, writable, storeVars, trendVars>>

\* the call ends: main prints the result, or the except branch prints the failure
main_result ==
    /\ pc = "adapter"
    /\ \E outcome \in PostOutcomes, e \in StoreEffects(platforms[idx], env),
          printed \in AdapterLines(platforms[idx], env) :
          /\ env' = e
          /\ stdout' = Append(stdout \o printed,
                 Line(IF outcome = "ok" THEN "green" ELSE "red", "result",
                      Str(<<platforms[idx]>>)))
          /\ trace' = Append(trace, Did(idx, platforms[idx], outcome))
          /\ idx' = NextIndex(idx, outcome)
    /\ pc' = "loop"
    /\ UNCHANGED <<cli, content, platforms, key, exitCode, results>>
    /\ UNCHANGED <<adapterVars, writable, storeVars, trendVars>>

(***************************************************************************)
(* The adapters.  A post call runs from apc = "start" to apc = "done"; ret *)
(* is then what it returned ("ok": (True, msg), "fail": (False, msg)) or   *)
(* that it raised.  events lists the network calls of the call in order:   *)
(* what was sent (the token), how the provider answered, what came back.   *)
(***************************************************************************)
Ev(ev, sent, res, got) == [ev |-> ev, sent |-> sent, res |-> res, got |-> got]
Loc(session, tmp, fresh) == [session |-> session, tmp |-> tmp, fresh |-> fresh]
Ret(kind, msg) == [kind |-> kind, msg |-> msg]

\* post returns or raises: its frames are gone
Done(kind, msg) ==
    /\ apc' = "done"
    /\ ret' = Ret(kind, msg)
    /\ depth' = 0

\* the .env file can be written (w) or set_env raises after os.environ was set
set_env_Silent(e, name, v, w) == [env |-> Put(e, name, v), ok |-> TRUE]
set_env(e, name, v, w) == [env |-> Put(e, name, v), ok |-> w]

(***************************************************************************)
(* platforms/facebook.py                                                   *)
(***************************************************************************)
Err(code, error_subcode, subcode, message) ==
    [code |-> code, error_subcode |-> error_subcode, subcode |-> subcode,
     message |-> message]

\* str.lower() on the chunks error messages are made of
Lower(chunk) ==
    CASE chunk = "Expired" -> "expired"
      [] chunk = "EXPIRED" -> "expired"
      [] chunk = "Session" -> "session"
      [] OTHER -> chunk

NumTruthy(v) == v # None /\ v.n # 0

_should_refresh_token_CaseSensitive(err) ==
    LET code == err.code
        subcode == IF NumTruthy(err.error_subcode) THEN err.error_subcode
                   ELSE err.subcode
        message == IF Truthy(err.message) THEN err.message.s ELSE <<>>
    IN  \/ code = Num(190)
        \/ subcode \in {Num(460), Num(463), Num(467)}
        \/ \E i \in 1..Len(message) : message[i] = "expired"
_should_refresh_token(err) ==
    LET code == err.code
        subcode == IF NumTruthy(err.error_subcode) THEN err.error_subcode
                   ELSE err.subcode
        message == IF Truthy(err.message)
                   THEN [i \in 1..Len(err.message.s) |-> Lower(err.message.s[i])]
                   ELSE <<>>
    IN  \/ code = Num(190)
        \/ subcode \in {Num(460), Num(463), Num(467)}
        \/ \E i \in 1..Len(message) : message[i] = "expired"

\* resp.json().get('error', {}), {} as well when the body does not parse
FbErrors ==
    {Err(None, None, None, None),
     Err(Num(190), None, None, Str(<<"invalid">>)),
     Err(Num(100), Num(463), None, None),
     Err(Num(100), None, Num(460), None),
     Err(Num(10), None, None, Str(<<"Session", "has", "Expired">>)),
     Err(Num(4), None, None, Str(<<"rate", "limited">>))}

\* what requests.post on the feed does: a response, or an exception; the
\* 'error' of a body can also be something that is no dict (a string, null)
FbResponses ==
    {[kind |-> "exc"], [kind |-> "http", status |-> 200, err |-> Err(None, None, None, None)]}
    \cup {[kind |-> "http", status |-> 400, err |-> e] : e \in FbErrors}
    \cup {[kind |-> "http", status |-> 400, err |-> [notdict |-> TRUE]]}

\* post: what follows the first feed POST
facebook_after_post(r) ==
    IF r.kind = "exc" THEN "exception"
    ELSE IF r.status = 200 THEN "ok"
    \* err.get raises in _should_refresh_token, caught at line 107
    ELSE IF r.err = [notdict |-> TRUE] THEN "exception"
    ELSE IF _should_refresh_token(r.err) THEN "refresh"
    ELSE "error"

\* how the provider's answer to a feed POST reads
FbClass(r) ==
    IF r.kind = "exc" THEN "exc"
    ELSE IF r.status = 200 THEN "ok"
    ELSE IF r.err # [notdict |-> TRUE] /\ _should_refresh_token(r.err) THEN "auth"
    ELSE "error"

\* post, lines 76-82
facebook_post_start ==
    /\ cur = "facebook" /\ apc = "start"
    /\ \E page_id \in get_env(env, "FACEBOOK_PAGE_ID"),
          access_token \in get_env(env, "FACEBOOK_ACCESS_TOKEN") :
          /\ env' = Known(Known(env, "FACEBOOK_PAGE_ID", page_id),
                          "FACEBOOK_ACCESS_TOKEN", access_token)
          /\ IF ~Truthy(page_id) \/ ~Truthy(access_token) THEN
                  /\ Done("fail", "Credentials missing.")
                  /\ loc' = Loc(None, None, None)
             ELSE /\ apc' = "fb_feed"
                  /\ loc' = Loc(access_token, None, None)
                  /\ UNCHANGED <<ret, depth>>
    /\ UNCHANGED <<events, liToken, xfile, bfile, now, calls>>
    /\ UNCHANGED <<cur, writable, mainVars, storeVars, trendVars>>

\* resp = requests.post(url, data=data, timeout=10) and the branch on resp
facebook_post_feed ==
    /\ cur = "facebook" /\ apc = "fb_feed"
    /\ \E r \in FbResponses :
          /\ events' = Append(events, Ev("publish", loc.session, FbClass(r), None))
          /\ LET then == facebook_after_post(r) IN
             CASE then = "ok" -> Done("ok", "Post successful.")
               [] then = "exception" -> Done("fail", "Exception")
               [] then = "error" -> Done("fail", "Error")
               [] then = "refresh" -> apc' = "fb_refresh" /\ UNCHANGED <<ret, depth>>
    /\ UNCHANGED <<env, loc, liToken, xfile, bfile, now, calls>>
    /\ UNCHANGED <<cur, writable, mainVars, storeVars, trendVars>>

\* _refresh_facebook_page_token, lines 46-52: the prerequisites
facebook_refresh_start ==
    /\ cur = "facebook" /\ apc = "fb_refresh"
    /\ \E app_id \in get_env(env, "FACEBOOK_APP_ID"),
          app_secret \in get_env(env, "FACEBOOK_APP_SECRET"),
          user_token \in get_env(env, "FACEBOOK_USER_ACCESS_TOKEN") :
          /\ env' = Known(Known(Known(env, "FACEBOOK_APP_ID", app_id),
                                "FACEBOOK_APP_SECRET", app_secret),
                          "FACEBOOK_USER_ACCESS_TOKEN", user_token)
          /\ IF ~Truthy(app_id) \/ ~Truthy(app_secret) \/ ~Truthy(user_token) THEN
                  \* return None; post logs and returns the first error
                  /\ Done("fail", "Error")
                  /\ UNCHANGED loc
             ELSE /\ apc' = "fb_exchange"
                  /\ loc' = Loc(loc.session, user_token, None)
                  /\ UNCHANGED <<ret, depth>>
    /\ UNCHANGED <<events, liToken, xfile, bfile, now, calls>>
    /\ UNCHANGED <<cur, writable, mainVars, storeVars, trendVars>>

\* what a token endpoint hands back: an exception, no token, an empty one, a token
Exchanges == {[kind |-> "exc", token |-> None], [kind |-> "json", token |-> None],
              [kind |-> "json", token |-> Str(<<>>)]}
             \cup {[kind |-> "json", token |-> t] : t \in NewTokens}

ExClass(r) == IF r.kind = "exc" THEN "exc" ELSE IF Truthy(r.token) THEN "ok" ELSE "error"

\* step 1: _exchange_long_lived_user_token
facebook_refresh_exchange ==
    /\ cur = "facebook" /\ apc = "fb_exchange"
    /\ \E r \in Exchanges :
          /\ events' = Append(events, Ev("exchange", loc.tmp, ExClass(r), r.token))
          /\ IF r.kind = "exc" \/ ~Truthy(r.token) THEN
                  /\ Done("fail", "Error")
                  /\ UNCHANGED loc
             ELSE /\ apc' = "fb_accounts"
                  /\ loc' = Loc(loc.session, r.token, None)
                  /\ UNCHANGED <<ret, depth>>
    /\ UNCHANGED <<env, liToken, xfile, bfile, now, calls>>
    /\ UNCHANGED <<cur, writable, mainVars, storeVars, trendVars>>

\* the token post retries with, given the stored one and the refreshed one
facebook_retry_token_Stale(old, new) == old
facebook_retry_token(old, new) == new

\* step 2: _get_page_access_token, and step 3: set_env
facebook_refresh_accounts ==
    /\ cur = "facebook" /\ apc = "fb_accounts"
    /\ \E r \in Exchanges :
          /\ events' = Append(events, Ev("accounts", loc.tmp, ExClass(r), r.token))
          /\ IF r.kind = "exc" \/ ~Truthy(r.token) THEN
                  /\ Done("fail", "Error")
                  /\ UNCHANGED <<loc, env>>
             ELSE LET saved == set_env(env, "FACEBOOK_ACCESS_TOKEN", r.token, writable) IN
                  /\ env' = saved.env
                  /\ IF saved.ok THEN
                          /\ apc' = "fb_retry"
                          /\ loc' = Loc(loc.session, loc.tmp, r.token)
                          /\ UNCHANGED <<ret, depth>>
                     ELSE /\ Done("fail", "Error")
                          /\ UNCHANGED loc
    /\ UNCHANGED <<liToken, xfile, bfile, now, calls>>
    /\ UNCHANGED <<cur, writable, mainVars, storeVars, trendVars>>

\* retry = requests.post(...) with the new token, lines 97-102
facebook_post_retry ==
    /\ cur = "facebook" /\ apc = "fb_retry"
    /\ \E r \in FbResponses :
          /\ events' = Append(events,
                 Ev("publish", facebook_retry_token(loc.session, loc.fresh), FbClass(r), None))
          /\ IF r.kind = "exc" THEN Done("fail", "Exception")
             ELSE IF r.status = 200 THEN Done("ok", "Post successful.")
             ELSE Done("fail", "Error after refresh")
    /\ UNCHANGED <<env, loc, liToken, xfile, bfile, now, calls>>
    /\ UNCHANGED <<cur, writable, mainVars, storeVars, trendVars>>

(***************************************************************************)
(* platforms/linkedin.py.  liToken is linkedin_oauth.token: None, or a     *)
(* token dict whose absent keys read None.                                 *)
(***************************************************************************)
TokenDict(access, refresh) == [access_token |-> access, refresh_token |-> refresh]

\* LinkedInOAuth._load_token
_load_token(access_token, refresh_token) ==
    IF Truthy(access_token)
    THEN TokenDict(access_token, IF Truthy(refresh_token) THEN refresh_token ELSE None)
    ELSE None

\* 'refresh_token' in self.token
HasRefresh_Never(token) == FALSE
HasRefresh(token) == token # None /\ token.refresh_token # None

\* LinkedInOAuth._save_token: token['access_token'] is a KeyError when absent
_save_token(e, token, w) ==
    IF token.access_token = None THEN [env |-> e, ok |-> FALSE]
    ELSE LET first == set_env(e, "LINKEDIN_ACCESS_TOKEN", token.access_token, w) IN
         IF ~first.ok \/ token.refresh_token = None THEN first
         ELSE set_env(first.env, "LINKEDIN_REFRESH_TOKEN", token.refresh_token, w)

\* the answers of the accessToken endpoint to a refresh or a code exchange
LiTokenResponses ==
    {[kind |-> "exc", json |-> None],
     [kind |-> "json", json |-> TokenDict(None, None)]}
    \cup {[kind |-> "json", json |-> TokenDict(t, None)] : t \in NewTokens}
    \cup {[kind |-> "json", json |-> TokenDict(t, Str(<<"newrefresh">>))] : t \in NewTokens}

LiClass(r) == IF r.kind = "exc" THEN "exc" ELSE "ok"

\* post enters: get_authenticated_session -> LinkedInOAuth.get_session, lines 113-125
linkedin_post_start ==
    /\ cur = "linkedin" /\ apc = "start"
    /\ apc' = IF HasRefresh(liToken) THEN "li_refresh"
              ELSE IF liToken = None THEN "li_authenticate"
              ELSE "li_author"
    \* loc.fresh: the refresh value self.token holds as this post call begins
    /\ loc' = Loc(None, None, IF liToken # None THEN liToken.refresh_token ELSE None)
    /\ UNCHANGED <<env, ret, events, depth, liToken, xfile, bfile, now, calls>>
    /\ UNCHANGED <<cur, writable, mainVars, storeVars, trendVars>>

\* get_session: self.refresh_token() in its try, self.token = None in its except
linkedin_get_session_refresh ==
    /\ cur = "linkedin" /\ apc = "li_refresh"
    /\ \E r \in LiTokenResponses :
          /\ events' = Append(events,
                 Ev("refresh", liToken.refresh_token, LiClass(r),
                    IF r.kind = "json" THEN r.json.access_token ELSE None))
          /\ IF r.kind = "exc" THEN
                  /\ liToken' = None
                  /\ apc' = "li_authenticate"
                  /\ UNCHANGED env
             ELSE LET saved == _save_token(env, r.json, writable) IN
                  /\ env' = saved.env
                  /\ liToken' = IF saved.ok THEN r.json ELSE None
                  /\ apc' = IF saved.ok THEN "li_author" ELSE "li_authenticate"
    /\ UNCHANGED <<ret, loc, depth, xfile, bfile, now, calls>>
    /\ UNCHANGED <<cur, writable, mainVars, storeVars, trendVars>>

\* get_session: authenticate() (browser, pasted redirect URL, fetch_token)
linkedin_authenticate ==
    /\ cur = "linkedin" /\ apc = "li_authenticate"
    /\ \E r \in LiTokenResponses :
          /\ events' = Append(events,
                 Ev("authorize", None, LiClass(r),
                    IF r.kind = "json" THEN r.json.access_token ELSE None))
          /\ IF r.kind = "exc" THEN
                  \* authenticate() is False: get_session raises, the session is None
                  /\ Done("fail", "Not authenticated.")
                  /\ UNCHANGED <<env, liToken>>
             ELSE IF r.json.access_token = None THEN
                  \* fetch_token of the OAuth library raises on a missing token
                  /\ Done("fail", "Not authenticated.")
                  /\ UNCHANGED <<env, liToken>>
             ELSE LET saved == _save_token(env, r.json, writable) IN
                  /\ env' = saved.env
                  /\ liToken' = r.json
                  /\ IF saved.ok THEN apc' = "li_author" /\ UNCHANGED <<ret, depth>>
                     ELSE Done("fail", "Not authenticated.")
    /\ UNCHANGED <<loc, xfile, bfile, now, calls>>
    /\ UNCHANGED <<cur, writable, mainVars, storeVars, trendVars>>

\* post, lines 199-208: the author URN
linkedin_post_author ==
    /\ cur = "linkedin" /\ apc = "li_author"
    /\ \E organization_urn \in get_env(env, "LINKEDIN_ORGANIZATION_URN") :
          IF Truthy(organization_urn) THEN
              /\ env' = Known(env, "LINKEDIN_ORGANIZATION_URN", organization_urn)
              /\ apc' = "li_ugc"
              /\ loc' = Loc(liToken.access_token, organization_urn, loc.fresh)
              /\ UNCHANGED <<ret, depth>>
          ELSE \E person_urn \in get_env(env, "LINKEDIN_AUTHOR_URN") :
              /\ env' = Known(Known(env, "LINKEDIN_ORGANIZATION_URN", organization_urn),
                              "LINKEDIN_AUTHOR_URN", person_urn)
              /\ IF ~Truthy(person_urn) THEN
                      /\ Done("fail", "Set LINKEDIN_ORGANIZATION_URN or LINKEDIN_AUTHOR_URN")
                      /\ loc' = Loc(liToken.access_token, None, loc.fresh)
                 ELSE /\ apc' = "li_ugc"
                      /\ loc' = Loc(liToken.access_token, person_urn, loc.fresh)
                      /\ UNCHANGED <<ret, depth>>
    /\ UNCHANGED <<events, liToken, xfile, bfile, now, calls>>
    /\ UNCHANGED <<cur, writable, mainVars, storeVars, trendVars>>

\* what session.post and raise_for_status do: 201, HTTPError 401, another
\* HTTPError, or a timeout or connection error
LiResponses == {"created", "unauthorized", "http_error", "exc"}

\* post: the except clause a failed request lands in and what it does
linkedin_on_response_RetryNetwork(res) ==
    CASE res = "created" -> "ok"
      [] res = "unauthorized" -> "refresh"
      [] res = "http_error" -> "api_error"
      [] res = "exc" -> "refresh"
linkedin_on_response(res) ==
    CASE res = "created" -> "ok"
      [] res = "unauthorized" -> "refresh"
      [] res = "http_error" -> "api_error"
      [] res = "exc" -> "error"

PublishClass(res) ==
    CASE res = "created" -> "ok"
      [] res = "unauthorized" -> "auth"
      [] res = "http_error" -> "error"
      [] res = "exc" -> "exc"

\* response = session.post(url, ...); response.raise_for_status()
linkedin_post_ugc ==
    /\ cur = "linkedin" /\ apc = "li_ugc"
    /\ \E res \in LiResponses :
          /\ events' = Append(events, Ev("publish", loc.session, PublishClass(res), None))
          /\ LET then == linkedin_on_response(res) IN
             CASE then = "ok" -> Done("ok", "Post successful.")
               [] then = "api_error" -> Done("fail", "API error")
               [] then = "error" -> Done("fail", "Error")
               [] then = "refresh" -> apc' = "li_reactive" /\ UNCHANGED <<ret, depth>>
    /\ UNCHANGED <<env, loc, liToken, xfile, bfile, now, calls>>
    /\ UNCHANGED <<cur, writable, mainVars, storeVars, trendVars>>

\* the nested calls of post the stack still holds: post calls itself again
CanRecurse(d) == d < MaxDepth

\* except HTTPError, 401: refresh_access_token(), and on True: return post(content)
linkedin_post_reactive ==
    /\ cur = "linkedin" /\ apc = "li_reactive"
    /\ IF ~HasRefresh(liToken) THEN
            \* refresh_token raises ValueError: refresh_access_token is False
            /\ Done("fail", "API error")
            /\ UNCHANGED <<env, events, liToken>>
       ELSE \E r \in LiTokenResponses :
            /\ events' = Append(events,
                   Ev("refresh", liToken.refresh_token, LiClass(r),
                      IF r.kind = "json" THEN r.json.access_token ELSE None))
            /\ IF r.kind = "exc" THEN
                    /\ Done("fail", "API error")
                    /\ UNCHANGED <<env, liToken>>
               ELSE LET saved == _save_token(env, r.json, writable) IN
                    /\ env' = saved.env
                    /\ liToken' = r.json
                    /\ IF ~saved.ok THEN Done("fail", "API error")
                       ELSE IF CanRecurse(depth) THEN
                            /\ apc' = "start"
                            /\ depth' = depth + 1
                            /\ UNCHANGED ret
                       ELSE \* RecursionError: raised in this handler it leaves every
                            \* post on the stack; raised inside a try it is caught there
                            \E how \in {"raise", "fail"} : Done(how, "RecursionError")
    /\ UNCHANGED <<loc, xfile, bfile, now, calls>>
    /\ UNCHANGED <<cur, writable, mainVars, storeVars, trendVars>>

(***************************************************************************)
(* platforms/x.py.  xfile is .x_token.json: None when the file is absent,  *)
(* Corrupt when json.load fails on it, else the token dict (absent keys    *)
(* read None).                                                             *)
(***************************************************************************)
Corrupt == [corrupt |-> TRUE]
XToken(access, refresh, expires_at) ==
    [access_token |-> access, refresh_token |-> refresh, expires_at |-> expires_at]

\* the 1 minute buffer of get_authenticated_session
Buffer == 60
\* token_data.get('expires_in', 7200)
DefaultExpiresIn == 7200

\* token.get('expires_at', 0) > time.time() + 60
NotExpired_NoBuffer(token, t) ==
    (IF token.expires_at = None THEN 0 ELSE token.expires_at.n) > t
NotExpired(token, t) ==
    (IF token.expires_at = None THEN 0 ELSE token.expires_at.n) > t + Buffer

\* load_token: what get_authenticated_session gets from the file
load_token(file) == IF file = Corrupt THEN [raised |-> TRUE, token |-> None]
                    ELSE [raised |-> FALSE, token |-> file]

\* if 'refresh_token' in token: the refresh, else on to the PKCE flow
x_fallback_AlwaysPkce(token) == "x_pkce"
x_fallback_AlwaysRefresh(token) == "x_refresh"
x_fallback(token) == IF token.refresh_token # None THEN "x_refresh" ELSE "x_pkce"

\* get_authenticated_session, lines 71-110, up to its first network call
x_post_start ==
    /\ cur = "x" /\ apc = "start"
    /\ \E client_id \in get_env(env, "X_CLIENT_ID"),
          client_secret \in get_env(env, "X_CLIENT_SECRET") :
          /\ env' = Known(Known(env, "X_CLIENT_ID", client_id),
                          "X_CLIENT_SECRET", client_secret)
          /\ IF ~Truthy(client_id) \/ ~Truthy(client_secret) THEN
                  /\ Done("fail", "Authentication failed")
                  /\ loc' = Loc(None, None, None)
             ELSE LET loaded == load_token(xfile) IN
                  \* loc.tmp: what load_token did, the local `token`
                  /\ loc' = Loc(None, loaded, None)
                  /\ IF loaded.raised THEN Done("raise", "JSONDecodeError")
                     ELSE /\ apc' = IF loaded.token = None THEN "x_pkce"
                                    ELSE IF NotExpired(loaded.token, now) THEN "x_test"
                                    ELSE x_fallback(loaded.token)
                          /\ UNCHANGED <<ret, depth>>
    /\ UNCHANGED <<events, liToken, xfile, bfile, now, calls>>
    /\ UNCHANGED <<cur, writable, mainVars, storeVars, trendVars>>

\* test_response = twitter.get('https://api.twitter.com/2/users/me')
x_session_test ==
    /\ cur = "x" /\ apc = "x_test"
    /\ \E res \in {"ok", "auth", "exc"} :
          /\ events' = Append(events, Ev("users_me", xfile.access_token, res, None))
          /\ IF res = "ok" THEN
                  /\ apc' = "x_tweet"
                  /\ loc' = Loc(xfile.access_token, loc.tmp, None)
             ELSE /\ apc' = x_fallback(xfile)
                  /\ UNCHANGED loc
    /\ UNCHANGED <<env, ret, depth, liToken, xfile, bfile, now, calls>>
    /\ UNCHANGED <<cur, writable, mainVars, storeVars, trendVars>>

\* the token endpoint's answers: an exception, a non-200, or a token with or
\* without a refresh value
XTokenResponses ==
    {[kind |-> "exc", json |-> None], [kind |-> "refused", json |-> None]}
    \cup {[kind |-> "json", json |-> XToken(t, None, None)] : t \in NewTokens}
    \cup {[kind |-> "json", json |-> XToken(t, Str(<<"newrefresh">>), None)] : t \in NewTokens}

XClass(r) == IF r.kind = "json" THEN "ok" ELSE IF r.kind = "exc" THEN "exc" ELSE "error"

\* refresh_token: the token it saves and returns for a 200 response
refresh_token(token_data, refresh_token_value) ==
    IF token_data.refresh_token = None
    THEN XToken(token_data.access_token, refresh_token_value, token_data.expires_at)
    ELSE token_data

\* new_token = refresh_token(client_id, client_secret, token['refresh_token'])
x_session_refresh ==
    /\ cur = "x" /\ apc = "x_refresh"
    /\ \E r \in XTokenResponses :
          /\ events' = Append(events,
                 Ev("refresh", xfile.refresh_token, XClass(r),
                    IF r.kind = "json" THEN r.json.access_token ELSE None))
          /\ IF r.kind = "json" /\ writable THEN
                  LET new_token == refresh_token(r.json, xfile.refresh_token) IN
                  /\ xfile' = new_token
                  /\ apc' = "x_tweet"
                  /\ loc' = Loc(new_token.access_token, loc.tmp, None)
             ELSE \* None, or an exception: on to a new authorization
                  /\ apc' = "x_pkce"
                  /\ UNCHANGED <<xfile, loc>>
    /\ UNCHANGED <<env, ret, depth, liToken, bfile, now, calls>>
    /\ UNCHANGED <<cur, writable, mainVars, storeVars, trendVars>>

\* the PKCE flow, lines 127-200: browser, pasted redirect URL, code exchange
x_session_pkce ==
    /\ cur = "x" /\ apc = "x_pkce"
    /\ \E r \in XTokenResponses :
          /\ events' = Append(events,
                 Ev("authorize", None, XClass(r),
                    IF r.kind = "json" THEN r.json.access_token ELSE None))
          /\ IF r.kind = "json" /\ writable THEN
                  LET token_data == XToken(r.json.access_token, r.json.refresh_token,
                                           Num(now + DefaultExpiresIn)) IN
                  /\ xfile' = token_data
                  /\ apc' = "x_tweet"
                  /\ loc' = Loc(token_data.access_token, loc.tmp, None)
                  /\ UNCHANGED <<ret, depth>>
             ELSE /\ Done("fail", "Authentication failed")
                  /\ UNCHANGED <<xfile, loc>>
    /\ UNCHANGED <<env, liToken, bfile, now, calls>>
    /\ UNCHANGED <<cur, writable, mainVars, storeVars, trendVars>>

\* content[:280]
TweetLimit == 280
tweet_text_Whole(c) == c
tweet_text(c) == Str(SubSeq(c.s, 1, Min(Len(c.s), TweetLimit)))

\* what twitter.post and response.json() do
XResponses == {"created", "unauthorized", "http_error", "exc"}

\* post: what follows the answer to the tweet
x_on_response(res) ==
    CASE res = "created" -> "ok" [] res = "exc" -> "exception" [] OTHER -> "error"

\* response = twitter.post("https://api.twitter.com/2/tweets", ...), lines 211-231
x_post_tweet ==
    /\ cur = "x" /\ apc = "x_tweet"
    /\ \E res \in XResponses :
          \* text: the "text" of the request's json
          /\ events' = Append(events,
                 [ev |-> "publish", sent |-> loc.session, res |-> PublishClass(res),
                  got |-> None, text |-> tweet_text(content)])
          /\ LET then == x_on_response(res) IN
             CASE then = "ok" -> Done("ok", "Post successful.")
               [] then = "exception" -> Done("fail", "Exception")
               [] then = "error" -> Done("fail", "Error")
    /\ UNCHANGED <<env, loc, liToken, xfile, bfile, now, calls>>
    /\ UNCHANGED <<cur, writable, mainVars, storeVars, trendVars>>

(***************************************************************************)
(* platforms/blogger.py.  bfile is .blogger_token.json: None when absent,  *)
(* Corrupt when it does not load, else the stored credentials.             *)
(***************************************************************************)
BCreds(token, refresh, expiry) == [token |-> token, refresh_token |-> refresh, expiry |-> expiry]

\* Credentials.expired and Credentials.valid
expired(c, t) == c.expiry # None /\ t >= c.expiry.n
valid(c, t) == c.token # None /\ ~expired(c, t)

\* post, lines 70-73, and get_authenticated_service up to its first network call
blogger_post_start ==
    /\ cur = "blogger" /\ apc = "start"
    /\ \E blog_id \in get_env(env, "BLOGGER_BLOG_ID") :
          IF ~Truthy(blog_id) THEN
              /\ env' = Known(env, "BLOGGER_BLOG_ID", blog_id)
              /\ Done("fail", "Blog ID missing")
              /\ loc' = Loc(None, None, None)
          ELSE \E client_id \in get_env(env, "GOOGLE_CLIENT_ID"),
                  client_secret \in get_env(env, "GOOGLE_CLIENT_SECRET") :
              /\ env' = Known(Known(Known(env, "BLOGGER_BLOG_ID", blog_id),
                                    "GOOGLE_CLIENT_ID", client_id),
                              "GOOGLE_CLIENT_SECRET", client_secret)
              /\ IF ~Truthy(client_id) \/ ~Truthy(client_secret) \/ bfile = Corrupt THEN
                      /\ Done("fail", "Authentication failed")
                      /\ loc' = Loc(None, None, None)
                 ELSE IF bfile # None /\ valid(bfile, now) THEN
                      /\ apc' = "b_publish"
                      \* loc.tmp: the creds the token file gave, None without a file
                      /\ loc' = Loc(bfile.token, bfile, None)
                      /\ UNCHANGED <<ret, depth>>
                 ELSE /\ apc' = IF bfile # None /\ expired(bfile, now)
                                   /\ Truthy(bfile.refresh_token)
                                THEN "b_refresh" ELSE "b_consent"
                      /\ loc' = Loc(None, bfile, None)
                      /\ UNCHANGED <<ret, depth>>
    /\ UNCHANGED <<events, liToken, xfile, bfile, now, calls>>
    /\ UNCHANGED <<cur, writable, mainVars, storeVars, trendVars>>

\* creds.refresh(Request())
blogger_refresh ==
    /\ cur = "blogger" /\ apc = "b_refresh"
    /\ \E r \in {[kind |-> "exc", token |-> None]}
                \cup {[kind |-> "json", token |-> t] : t \in NewTokens} :
          /\ events' = Append(events, Ev("refresh", bfile.refresh_token, ExClass(r), r.token))
          /\ IF r.kind = "exc" THEN
                  /\ Done("fail", "Authentication failed")
                  /\ UNCHANGED loc
             ELSE /\ apc' = "b_publish"
                  /\ loc' = Loc(r.token, loc.tmp, None)
                  /\ UNCHANGED <<ret, depth>>
    /\ UNCHANGED <<env, liToken, xfile, bfile, now, calls>>
    /\ UNCHANGED <<cur, writable, mainVars, storeVars, trendVars>>

\* flow.run_local_server(...) and the write of .blogger_token.json
blogger_consent ==
    /\ cur = "blogger" /\ apc = "b_consent"
    /\ \E r \in {[kind |-> "exc", token |-> None]}
                \cup {[kind |-> "json", token |-> t] : t \in NewTokens} :
          /\ events' = Append(events, Ev("authorize", None, ExClass(r), r.token))
          /\ IF r.kind = "exc" \/ ~writable THEN
                  /\ Done("fail", "Authentication failed")
                  /\ UNCHANGED <<loc, bfile>>
             ELSE /\ bfile' = BCreds(r.token, Str(<<"newrefresh">>), Num(now + DefaultExpiresIn))
                  /\ apc' = "b_publish"
                  /\ loc' = Loc(r.token, loc.tmp, None)
                  /\ UNCHANGED <<ret, depth>>
    /\ UNCHANGED <<env, liToken, xfile, now, calls>>
    /\ UNCHANGED <<cur, writable, mainVars, storeVars, trendVars>>

\* post: what follows the answer to the blog post
blogger_on_response(res) ==
    CASE res = "created" -> "ok" [] res = "exc" -> "exception" [] OTHER -> "error"

\* resp = requests.post(url, headers=headers, data=..., timeout=10), lines 91-100
blogger_post_publish ==
    /\ cur = "blogger" /\ apc = "b_publish"
    /\ \E res \in XResponses :
          /\ events' = Append(events, Ev("publish", loc.session, PublishClass(res), None))
          /\ LET then == blogger_on_response(res) IN
             CASE then = "ok" -> Done("ok", "Post successful.")
               [] then = "exception" -> Done("fail", "Exception")
               [] then = "error" -> Done("fail", "Error")
    /\ UNCHANGED <<env, loc, liToken, xfile, bfile, now, calls>>
    /\ UNCHANGED <<cur, writable, mainVars, storeVars, trendVars>>

(***************************************************************************)
(* post called directly, as often as MaxCalls allows.                      *)
(***************************************************************************)
\* stored X tokens: no expiry, expired, inside the buffer, just outside, far off
XFiles ==
    {None, Corrupt}
    \cup {XToken(Str(<<"old">>), rf, ex) :
            rf \in {None, Str(<<"oldrefresh">>)},
            ex \in {None, Num(900), Num(1060), Num(1061)}}

BFiles ==
    {None, Corrupt}
    \cup {BCreds(tk, rf, ex) :
            tk \in {None, Str(<<"old">>)},
            rf \in {None, Str(<<"oldrefresh">>)},
            ex \in {None, Num(900), Num(2000)}}

\* the next post call of the process, some time later
post_again ==
    /\ pc = "direct" /\ apc = "done"
    /\ calls < MaxCalls
    /\ calls' = calls + 1
    /\ apc' = "start"
    /\ events' = <<>>
    /\ ret' = None
    /\ loc' = None
    /\ \E dt \in {0, 200} : now' = now + dt
    /\ UNCHANGED <<env, depth, liToken, xfile, bfile>>
    /\ UNCHANGED <<cur, writable, mainVars, storeVars, trendVars>>

InitAdapterIdle ==
    /\ cur = "none"
    /\ apc = "idle"
    /\ ret = None
    /\ events = <<>>
    /\ loc = None
    /\ depth = 0
    /\ liToken = None
    /\ xfile = None
    /\ bfile = None
    /\ now = 0
    /\ calls = 0

\* fetch_x_trends is not called in this run
InitTrendIdle ==
    /\ crypto_keywords = None
    /\ trends = None

\* no Credential Store call is followed in this run
InitStoreIdle ==
    /\ dotenv = NoFile
    /\ _env_loaded = TRUE
    /\ stored = <<>>

Init ==
    /\ writable = TRUE
    /\ cli \in Clis
    /\ pc = "start"
    /\ content = None
    /\ platforms = <<>>
    /\ idx = 1
    /\ key = 0
    /\ exitCode = None
    /\ stdout = <<>>
    /\ trace = <<>>
    /\ env = <<>>
    /\ results = None
    /\ InitAdapterIdle
    /\ InitStoreIdle
    /\ InitTrendIdle

Next ==
    \/ main_start
    \/ main_return
    \/ main_unsupported
    \/ main_known
    \/ platform_credentials_ok
    \/ main_call
    \/ main_result

Spec == Init /\ [][Next]_vars

\* a process that has imported the adapters and calls post of one of them
InitAdapters ==
    /\ writable \in BOOLEAN
    /\ cli = [post |-> Str(<<"hello">>), file |-> None, trends |-> None,
              platform |-> None, readable |-> TRUE, text |-> Str(<<>>)]
    /\ pc = "direct"
    /\ platforms = <<>>
    /\ idx = 1
    /\ key = 0
    /\ exitCode = None
    /\ stdout = <<>>
    /\ trace = <<>>
    /\ results = None
    /\ InitStoreIdle
    /\ InitTrendIdle
    /\ cur \in Known_Platforms
    \* x.post is also called with texts of 280 and of 281 characters
    /\ content \in {Str(<<"hello">>)} \cup
                   (IF cur = "x"
                    THEN {Str([i \in 1..n |-> IF i % 3 = 0 THEN "a" ELSE "b"]) :
                             n \in {TweetLimit, TweetLimit + 1}}
                    ELSE {})
    /\ apc = "start"
    /\ ret = None
    /\ events = <<>>
    /\ loc = None
    /\ depth = 0
    /\ now = 1000
    /\ calls = 1
    /\ xfile \in IF cur = "x" THEN XFiles ELSE {None}
    /\ bfile \in IF cur = "blogger" THEN BFiles ELSE {None}
    \* linkedin_oauth = LinkedInOAuth(): _load_token reads the environment
    /\ IF cur = "linkedin" THEN
          \E a \in EnvValues, r \in {None, Str(<<>>), Str(<<"oldrefresh">>)} :
             /\ env = ("LINKEDIN_ACCESS_TOKEN" :> a) @@ ("LINKEDIN_REFRESH_TOKEN" :> r)
             /\ liToken = _load_token(a, r)
       ELSE env = <<>> /\ liToken = None

NextAdapters ==
    \/ facebook_post_start
    \/ facebook_post_feed
    \/ facebook_refresh_start
    \/ facebook_refresh_exchange
    \/ facebook_refresh_accounts
    \/ facebook_post_retry
    \/ linkedin_post_start
    \/ linkedin_get_session_refresh
    \/ linkedin_authenticate
    \/ linkedin_post_author
    \/ linkedin_post_ugc
    \/ linkedin_post_reactive
    \/ x_post_start
    \/ x_session_test
    \/ x_session_refresh
    \/ x_session_pkce
    \/ x_post_tweet
    \/ blogger_post_start
    \/ blogger_refresh
    \/ blogger_consent
    \/ blogger_post_publish
    \/ post_again

SpecAdapters == InitAdapters /\ [][NextAdapters]_vars

(***************************************************************************)
(* utils/env.py as a Credential Store: get_env and set_env called in any   *)
(* order on two names.  Here env is os.environ itself (a name outside      *)
(* DOMAIN env is unset), dotenv the lines of the .env file, each line a    *)
(* sequence of chunks: <<"NAME", "=", "v1">> is the line NAME=v1.          *)
(***************************************************************************)
StoreNames == {"NAME", "OTHER"}
StoreValues == {Str(<<"v1">>), Str(<<"v2">>)}

\* f"{var_name}={str_value}"
FormatLine(name, v) == <<name, "=">> \o v.s

\* line.startswith(f"{var_name}=")
StartsWith(line, name) == Len(line) >= 2 /\ line[1] = name /\ line[2] = "="

\* the binding dotenv reads from a line: none from a comment or an empty line
ParseLine(line) ==
    IF Len(line) >= 2 /\ line[1] # "#" /\ line[2] = "="
    THEN [name |-> line[1], value |-> Str(SubSeq(line, 3, Len(line)))]
    ELSE None

\* load_dotenv(dotenv_path=env_path, override=True) from line i on
RECURSIVE load_dotenv(_, _, _)
load_dotenv(e, file, i) ==
    IF i > Len(file.lines) THEN e
    ELSE LET b == ParseLine(file.lines[i]) IN
         load_dotenv(IF b = None THEN e ELSE Put(e, b.name, b.value), file, i + 1)

\* ensure_env_loaded: os.environ after it ran (the flag is then True)
ensure_env_loaded(e, file, loaded) ==
    IF loaded \/ ~file.exists THEN e ELSE load_dotenv(e, file, 1)

\* os.getenv(var_name, None)
getenv(e, name) == IF name \in DOMAIN e THEN e[name] ELSE None

\* set_env, lines 68-90: replace the first matching line or append one; a new
\* file when there is none
set_env_write(file, name, v) ==
    IF ~file.exists THEN File(<<FormatLine(name, v)>>)
    ELSE LET lines == file.lines
             hits == {i \in 1..Len(lines) : StartsWith(lines[i], name)} IN
         IF hits # {}
         THEN File([lines EXCEPT ![CHOOSE i \in hits : \A j \in hits : i <= j] =
                                     FormatLine(name, v)])
         ELSE File(Append(lines, FormatLine(name, v)))

\* set_key(env_path, var_name, str_value, quote_mode='never'): every binding
\* of the key is rewritten, the other lines are copied, a missing key is appended
set_key(file, name, v) ==
    LET lines == file.lines
        bound(i) == ParseLine(lines[i]) # None /\ ParseLine(lines[i]).name = name IN
    IF \E i \in 1..Len(lines) : bound(i)
    THEN File([i \in 1..Len(lines) |-> IF bound(i) THEN FormatLine(name, v) ELSE lines[i]])
    ELSE File(Append(lines, FormatLine(name, v)))

StoreRet(op, name, value, ok) == [op |-> op, name |-> name, value |-> value, ok |-> ok]

\* get_env(var_name)
get_env_call ==
    /\ pc = "store"
    /\ \E name \in StoreNames :
          LET e == ensure_env_loaded(env, dotenv, _env_loaded) IN
          /\ env' = e
          /\ _env_loaded' = TRUE
          /\ ret' = StoreRet("get", name, getenv(e, name), TRUE)
    /\ UNCHANGED <<dotenv, stored, writable>>
    /\ UNCHANGED <<cur, apc, events, loc, depth, liToken, xfile, bfile, now, calls, mainVars, trendVars>>

\* set_env(var_name, value); the file can be written at this call or its
\* write_text raises
set_env_call ==
    /\ pc = "store"
    /\ \E name \in StoreNames, v \in StoreValues, w \in BOOLEAN :
          LET saved == set_env(ensure_env_loaded(env, dotenv, _env_loaded), name, v, w) IN
          /\ writable' = w
          /\ env' = saved.env
          /\ ret' = StoreRet("set", name, v, saved.ok)
          /\ IF saved.ok THEN
                  /\ dotenv' = set_key(set_env_write(dotenv, name, v), name, v)
                  /\ _env_loaded' = FALSE
                  /\ stored' = Put(stored, name, v)
             ELSE /\ _env_loaded' = TRUE
                  /\ UNCHANGED <<dotenv, stored>>
    /\ UNCHANGED <<cur, apc, events, loc, depth, liToken, xfile, bfile, now, calls, mainVars, trendVars>>

\* the .env files a process may find
DotenvFiles ==
    {NoFile, File(<<>>),
     File(<<<<"#", "tokens">>, <<"NAME", "=", "v0">>>>),
     File(<<<<"OTHER", "=", "v0">>, <<"NAME", "=", "v0">>, <<"THIRD", "=", "v0">>>>)}

\* a process that has imported utils/env.py and not yet called it
InitEnv ==
    /\ writable = TRUE
    /\ cli = [post |-> Str(<<"hello">>), file |-> None, trends |-> None,
              platform |-> None, readable |-> TRUE, text |-> Str(<<>>)]
    /\ pc = "store"
    /\ content = None
    /\ platforms = <<>>
    /\ idx = 1
    /\ key = 0
    /\ exitCode = None
    /\ stdout = <<>>
    /\ trace = <<>>
    /\ results = None
    /\ InitAdapterIdle
    /\ env \in {<<>>, "NAME" :> Str(<<"shell">>)}
    /\ dotenv \in DotenvFiles
    /\ _env_loaded = FALSE
    /\ stored = <<>>
    /\ InitTrendIdle

NextEnv ==
    \/ get_env_call
    \/ set_env_call

SpecEnv == InitEnv /\ [][NextEnv]_vars

(***************************************************************************)
(* Two processes that each call set_env once on the same .env file, actor  *)
(* 1 with NAME and actor 2 with OTHER.  set_env holds no lock: its read of *)
(* the file (line 71), its write (lines 87, 90) and the read and the       *)
(* replacing write inside set_key (line 97) are steps of their own.  loc   *)
(* gives for each actor where it is and the lines it last read.            *)
(***************************************************************************)
\* the next file step of actor a's set_env(name, v)
set_env_step(a, name, v) ==
    /\ pc = "race" /\ loc[a].at # "done"
    /\ CASE loc[a].at = "read1" ->
              /\ loc' = [loc EXCEPT ![a] = [at |-> "write1", snap |-> dotenv]]
              /\ UNCHANGED <<dotenv, stored>>
         [] loc[a].at = "write1" ->
              /\ dotenv' = set_env_write(loc[a].snap, name, v)
              /\ loc' = [loc EXCEPT ![a].at = "read2"]
              /\ UNCHANGED stored
         [] loc[a].at = "read2" ->
              /\ loc' = [loc EXCEPT ![a] = [at |-> "write2", snap |-> dotenv]]
              /\ UNCHANGED <<dotenv, stored>>
         [] loc[a].at = "write2" ->
              /\ dotenv' = set_key(loc[a].snap, name, v)
              /\ loc' = [loc EXCEPT ![a].at = "done"]
              /\ stored' = Put(stored, name, v)
    /\ UNCHANGED <<env, cur, apc, ret, events, depth, liToken, xfile, bfile, now, calls>>
    /\ UNCHANGED <<writable, _env_loaded, mainVars, trendVars>>

InitEnvRace ==
    /\ writable = TRUE
    /\ cli = [post |-> Str(<<"hello">>), file |-> None, trends |-> None,
              platform |-> None, readable |-> TRUE, text |-> Str(<<>>)]
    /\ pc = "race"
    /\ content = None
    /\ platforms = <<>>
    /\ idx = 1
    /\ key = 0
    /\ exitCode = None
    /\ stdout = <<>>
    /\ trace = <<>>
    /\ results = None
    /\ env = <<>>
    /\ cur = "none"
    /\ apc = "idle"
    /\ ret = None
    /\ events = <<>>
    /\ loc = [a \in {1, 2} |-> [at |-> "read1", snap |-> NoFile]]
    /\ depth = 0
    /\ liToken = None
    /\ xfile = None
    /\ bfile = None
    /\ now = 0
    /\ calls = 0
    /\ dotenv \in DotenvFiles
    /\ _env_loaded = TRUE
    /\ stored = <<>>
    /\ InitTrendIdle

NextEnvRace ==
    \/ \E v \in StoreValues : set_env_step(1, "NAME", v)
    \/ \E v \in StoreValues : set_env_step(2, "OTHER", v)

SpecEnvRace == InitEnvRace /\ [][NextEnvRace]_vars

(***************************************************************************)
(* facebook._should_refresh_token called on an error dict, as              *)
(* test_facebook_refresh.py calls it.  loc is the dict, ret the result.    *)
(***************************************************************************)
\* should_refresh = _should_refresh_token(test_error)
should_refresh_call ==
    /\ pc = "pure" /\ ret = None
    /\ ret' = [value |-> _should_refresh_token(loc)]
    /\ UNCHANGED <<env, cur, apc, events, loc, depth, liToken, xfile, bfile, now, calls>>
    /\ UNCHANGED <<writable, mainVars, storeVars, trendVars>>

InitRefreshCheck ==
    /\ writable = TRUE
    /\ cli = [post |-> Str(<<"hello">>), file |-> None, trends |-> None,
              platform |-> None, readable |-> TRUE, text |-> Str(<<>>)]
    /\ pc = "pure"
    /\ content = None
    /\ platforms = <<>>
    /\ idx = 1
    /\ key = 0
    /\ exitCode = None
    /\ stdout = <<>>
    /\ trace = <<>>
    /\ results = None
    /\ env = <<>>
    /\ cur = "none"
    /\ apc = "idle"
    /\ ret = None
    /\ events = <<>>
    \* error dicts: absent keys read None
    /\ loc \in
          {Err(c, es, sc, m) :
              c \in {None, Num(190), Num(4)},
              es \in {None, Num(0), Num(463), Num(1)},
              sc \in {None, Num(460), Num(467), Num(1)},
              m \in {None, Str(<<>>), Str(<<"rate", "limited">>),
                     Str(<<"Session", "has", "Expired">>), Str(<<"token", "EXPIRED">>),
                     Str(<<"token", "expired">>)}}
    /\ depth = 0
    /\ liToken = None
    /\ xfile = None
    /\ bfile = None
    /\ now = 0
    /\ calls = 0
    /\ InitStoreIdle
    /\ InitTrendIdle

NextRefreshCheck == should_refresh_call

SpecRefreshCheck == InitRefreshCheck /\ [][NextRefreshCheck]_vars

(***************************************************************************)
(* platforms/x.py: get_trends, and fetch_x_trends over it.  In this part   *)
(* strings are spelled character by character, so that lower() and `in`    *)
(* have something to work on.                                              *)
(***************************************************************************)
\* [:10] of get_trends
TrendLimit == 10
MaxRaw == 11        \* longest list an endpoint answers with

\* str.lower() on the letters the trend names and keywords are made of
str_lower(v) ==
    LET LowerChar(c) ==
            CASE c = "B" -> "b" [] c = "T" -> "t" [] c = "C" -> "c" [] c = "N" -> "n"
              [] c = "F" -> "f" [] c = "D" -> "d" [] c = "S" -> "s" [] OTHER -> c
    IN Str([i \in 1..Len(v.s) |-> LowerChar(v.s[i])])

\* sub in s, on the characters
IsIn(sub, s) ==
    \E i \in 0..(Len(s) - Len(sub)) : SubSeq(s, i + 1, i + Len(sub)) = sub

\* '#Bitcoin', 'NFT Drop', '#Sports', 'BTC nft'
NameAt(i) ==
    LET names == << Str(<<"#", "B", "i", "t", "c", "o", "i", "n">>),
                    Str(<<"N", "F", "T", " ", "D", "r", "o", "p">>),
                    Str(<<"#", "S", "p", "o", "r", "t", "s">>),
                    Str(<<"B", "T", "C", " ", "n", "f", "t">>) >>
    IN names[((i - 1) % Len(names)) + 1]

\* an element of the list an endpoint answered with: a JSON object (a key
\* it lacks reads None) or something that is no object, here a string
RawItem(name, topic, url, tweet_volume) ==
    [isdict |-> TRUE, name |-> name, topic |-> topic, display_name |-> None,
     query |-> None, url |-> url, tweet_volume |-> tweet_volume]

RawItemAt(p, i, n) ==
    CASE p = "named" -> RawItem(NameAt(i), None, Str(<<"u">>), Num(5))
      [] p = "topic" -> IF i % 2 = 1 THEN RawItem(None, NameAt(i), None, None)
                        ELSE RawItem(Str(<<>>), None, None, None)
      [] p = "bare" -> RawItem(None, None, None, None)
      [] p = "str_last" -> IF i = n THEN [isdict |-> FALSE, s |-> <<"x">>]
                           ELSE RawItem(NameAt(i), None, Str(<<"u">>), Num(5))
\* the lists: four kinds of elements, five lengths
RawLists ==
    {[i \in 1..n |-> RawItemAt(p, i, n)] :
        p \in {"named", "topic", "bare", "str_last"}, n \in {0, 1, 2, TrendLimit, MaxRaw}}

\* an item of the list get_trends returns
Trend(name, url, tweet_volume) ==
    [name |-> name, url |-> url, tweet_volume |-> tweet_volume]

\* the [:10] slices
head_All(l) == l
head(l) == SubSeq(l, 1, Min(Len(l), TrendLimit))

\* it.get('name') or it.get('topic') or it.get('display_name') or it.get('query') or ''
NameOf(it) ==
    IF Truthy(it.name) THEN it.name
    ELSE IF Truthy(it.topic) THEN it.topic
    ELSE IF Truthy(it.display_name) THEN it.display_name
    ELSE IF Truthy(it.query) THEN it.query
    ELSE Str(<<>>)

\* what v2_resp.json() gave: a list, a dict (a key it lacks, or that holds
\* null or [], reads <<>>), or anything else
V2Responses ==
    LET bodies ==
          {[kind |-> "list", list |-> l, data |-> <<>>, trends |-> <<>>] : l \in RawLists}
          \cup {[kind |-> "dict", list |-> <<>>, data |-> l, trends |-> <<>>] : l \in RawLists}
          \cup {[kind |-> "dict", list |-> <<>>, data |-> <<>>, trends |-> l] : l \in RawLists}
          \cup {[kind |-> "other", list |-> <<>>, data |-> <<>>, trends |-> <<>>]}
    IN {[status |-> "exc", body |-> None], [status |-> "error", body |-> None]}
       \cup {[status |-> "ok", body |-> b] : b \in bodies}

\* lines 254-258
raw_list(data) ==
    CASE data.kind = "list" -> data.list
      [] data.kind = "dict" -> IF data.data # <<>> THEN data.data ELSE data.trends
      [] OTHER -> <<>>

\* lines 260-272: the loop raises on an element that has no .get
v2_items(raw) ==
    LET first == head(raw)
        named == SelectSeq(first, LAMBDA it : it.isdict /\ Truthy(NameOf(it)))
    IN [raised |-> \E i \in 1..Len(first) : ~first[i].isdict,
        items |-> [i \in 1..Len(named) |->
                     Trend(NameOf(named[i]),
                           IF Truthy(named[i].url) THEN named[i].url ELSE Str(<<>>),
                           None)]]

\* what response.json() of the legacy endpoint gave: nothing usable, a list
\* whose first element is an object with its 'trends', or a list whose
\* first element is no object
V1Responses ==
    LET bodies == {[kind |-> "empty", trends |-> <<>>], [kind |-> "bad", trends |-> <<>>]}
                  \cup {[kind |-> "list", trends |-> l] : l \in RawLists}
    IN {[status |-> "exc", body |-> None], [status |-> "error", body |-> None]}
       \cup {[status |-> "ok", body |-> b] : b \in bodies}

\* lines 304-310: trend.get(key, default) for each of the first ten
v1_items(raw) ==
    LET first == head(raw) IN
    [raised |-> \E i \in 1..Len(first) : ~first[i].isdict,
     items |-> [i \in 1..Len(first) |->
                  IF ~first[i].isdict THEN None
                  ELSE Trend(IF first[i].name = None THEN Str(<<>>) ELSE first[i].name,
                             IF first[i].url = None THEN Str(<<>>) ELSE first[i].url,
                             IF first[i].tweet_volume = None THEN Num(0)
                             ELSE first[i].tweet_volume)]]

\* v2_resp = twitter.get(v2_url), lines 247-276; whatever is raised in
\* there is caught at line 277
get_trends_primary ==
    /\ pc = "t_primary" /\ cur = "x" /\ apc = "x_tweet"
    /\ \E r \in V2Responses :
          /\ events' = Append(events,
                 Ev("personalized_trends", loc.session, r.status,
                    \* got: how many items the answer yielded
                    IF r.status = "ok" /\ ~v2_items(raw_list(r.body)).raised
                    THEN Num(Len(v2_items(raw_list(r.body)).items)) ELSE None))
          /\ IF r.status = "ok" /\ ~v2_items(raw_list(r.body)).raised
                 /\ v2_items(raw_list(r.body)).items # <<>>
             THEN /\ trends' = v2_items(raw_list(r.body)).items
                  /\ pc' = "t_filter"
             ELSE /\ pc' = "t_legacy"
                  /\ UNCHANGED trends
    /\ UNCHANGED <<cli, content, platforms, idx, key, exitCode, stdout, trace, results>>
    /\ UNCHANGED <<env, cur, apc, ret, loc, depth, liToken, xfile, bfile, now, calls>>
    /\ UNCHANGED <<writable, storeVars, crypto_keywords>>

\* lines 280-318, reached when the session is None, when getting it raised,
\* or when the primary endpoint gave no items
get_trends_legacy ==
    /\ \/ pc = "t_primary" /\ apc = "done"
       \/ pc = "t_legacy"
    /\ \E consumer_key \in get_env(env, "X_CONSUMER_KEY"),
          consumer_secret \in get_env(env, "X_CONSUMER_SECRET"),
          access_token \in get_env(env, "X_ACCESS_TOKEN"),
          access_token_secret \in get_env(env, "X_ACCESS_TOKEN_SECRET") :
          /\ env' = Known(Known(Known(Known(env, "X_CONSUMER_KEY", consumer_key),
                                      "X_CONSUMER_SECRET", consumer_secret),
                                "X_ACCESS_TOKEN", access_token),
                          "X_ACCESS_TOKEN_SECRET", access_token_secret)
          /\ IF ~(Truthy(consumer_key) /\ Truthy(consumer_secret)
                   /\ Truthy(access_token) /\ Truthy(access_token_secret))
             THEN /\ trends' = <<>>
                  /\ UNCHANGED events
             ELSE \E r \in V1Responses :
                  /\ events' = Append(events,
                         Ev("trends_place", consumer_key, r.status, None))
                  /\ trends' = IF r.status = "ok" /\ r.body.kind = "list"
                                   /\ ~v1_items(r.body.trends).raised
                               THEN v1_items(r.body.trends).items
                               ELSE <<>>
    /\ pc' = "t_filter"
    /\ UNCHANGED <<cli, content, platforms, idx, key, exitCode, stdout, trace, results>>
    /\ UNCHANGED <<cur, apc, ret, loc, depth, liToken, xfile, bfile, now, calls>>
    /\ UNCHANGED <<writable, storeVars, crypto_keywords>>

\* the keywords of kws the name contains, whatever the case of either
matched_keywords(name, kws) ==
    SelectSeq(kws, LAMBDA kw : IsIn(str_lower(kw).s, str_lower(name).s))

\* fetch_x_trends(crypto_keywords): the dict it returns for the list ts
fetch_x_trends_FirstKeyword(ts, kws, t) ==
    LET hits == SelectSeq(ts, LAMBDA tr : matched_keywords(tr.name, kws) # <<>>) IN
    [platform |-> "x",
     total_trends |-> Len(ts),
     crypto_trends |-> Len(hits),
     trends |-> [i \in 1..Len(hits) |->
                   [name |-> hits[i].name, url |-> hits[i].url,
                    tweet_volume |-> hits[i].tweet_volume,
                    matched_keywords |-> <<matched_keywords(hits[i].name, kws)[1]>>]],
     timestamp |-> Num(t)]
fetch_x_trends(ts, kws, t) ==
    LET hits == SelectSeq(ts, LAMBDA tr : matched_keywords(tr.name, kws) # <<>>) IN
    [platform |-> "x",
     total_trends |-> Len(ts),
     crypto_trends |-> Len(hits),
     trends |-> [i \in 1..Len(hits) |->
                   [name |-> hits[i].name, url |-> hits[i].url,
                    tweet_volume |-> hits[i].tweet_volume,
                    matched_keywords |-> matched_keywords(hits[i].name, kws)]],
     timestamp |-> Num(t)]

\* return of fetch_x_trends
fetch_x_trends_return ==
    /\ pc = "t_filter"
    /\ ret' = fetch_x_trends(trends, crypto_keywords, now)
    /\ pc' = "t_done"
    /\ UNCHANGED <<cli, content, platforms, idx, key, exitCode, stdout, trace, results>>
    /\ UNCHANGED <<env, cur, apc, events, loc, depth, liToken, xfile, bfile, now, calls>>
    /\ UNCHANGED <<writable, storeVars, crypto_keywords, trends>>

\* a process that calls fetch_x_trends(crypto_keywords)
InitTrends ==
    /\ writable = TRUE
    /\ cli = [post |-> Str(<<"hello">>), file |-> None, trends |-> None,
              platform |-> None, readable |-> TRUE, text |-> Str(<<>>)]
    /\ pc = "t_primary"
    /\ content = None
    /\ platforms = <<>>
    /\ idx = 1
    /\ key = 0
    /\ exitCode = None
    /\ stdout = <<>>
    /\ trace = <<>>
    /\ results = None
    /\ InitStoreIdle
    \* 'bitcoin', 'nft', 'btc', 'NFT', 'sol'
    /\ crypto_keywords \in
          { << Str(<<"b", "i", "t", "c", "o", "i", "n">>), Str(<<"n", "f", "t">>) >>,
            << Str(<<"b", "t", "c">>), Str(<<"N", "F", "T">>) >>,
            << Str(<<"s", "o", "l">>) >> }
    /\ trends = None
    /\ cur = "x"
    /\ apc = "start"
    /\ ret = None
    /\ events = <<>>
    /\ loc = None
    /\ depth = 0
    /\ now = 1000
    /\ calls = 1
    /\ liToken = None
    /\ bfile = None
    /\ xfile \in {None, Corrupt, XToken(Str(<<"old">>), Str(<<"oldrefresh">>), Num(1061)),
                  XToken(Str(<<"old">>), None, Num(900))}
    \* the OAuth1 keys in the environment: all four, or one of them unset or empty
    /\ env \in
          LET full == ("X_CONSUMER_KEY" :> Str(<<"abc">>)) @@ ("X_CONSUMER_SECRET" :> Str(<<"abc">>))
                      @@ ("X_ACCESS_TOKEN" :> Str(<<"abc">>))
                      @@ ("X_ACCESS_TOKEN_SECRET" :> Str(<<"abc">>))
          IN {full} \cup {[full EXCEPT ![k] = None] : k \in DOMAIN full}
                    \cup {[full EXCEPT !["X_ACCESS_TOKEN"] = Str(<<>>)]}

NextTrends ==
    \/ x_post_start
    \/ x_session_test
    \/ x_session_refresh
    \/ x_session_pkce
    \/ get_trends_primary
    \/ get_trends_legacy
    \/ fetch_x_trends_return

SpecTrends == InitTrends /\ [][NextTrends]_vars

(***************************************************************************)
(* crypto_trend_workflow.py: compose_social_message(topic, url).  Strings  *)
(* are spelled character by character; a hashtag of HASHTAGS is one        *)
(* element, as none of them holds a space or a newline.                    *)
(***************************************************************************)
\* summary[:60]
SnippetLen == 60
\* k=min(3, len(HASHTAGS))
SampleSize == 3

HASHTAGS ==
    << "#Crypto", "#Blockchain", "#Web3", "#DeFi", "#Bitcoin", "#Ethereum",
       "#Altcoins", "#NFT", "#AI", "#FinTech", "#CryptoNews", "#OnChain",
       "#Layer2", "#SmartContracts", "#Stablecoins", "#YieldFarming",
       "#Tokenization", "#Web3Gaming", "#Airdrop", "#CryptoMarkets" >>

\* the characters U+2014 (em dash) and U+2026 (ellipsis), one element each
EmDash == "(em dash)"
Ellipsis == "(ellipsis)"

Whitespace == {" ", "\t", "\n"}

\* s.startswith(p)
startswith(s, p) == Len(s) >= Len(p) /\ SubSeq(s, 1, Len(p)) = p

\* s.lstrip(chars), s.rstrip(chars)
lstrip(s, chars) ==
    LET stay == {i \in 1..Len(s) : s[i] \notin chars} IN
    IF stay = {} THEN <<>>
    ELSE SubSeq(s, CHOOSE i \in stay : \A j \in stay : i <= j, Len(s))
rstrip(s, chars) ==
    LET stay == {i \in 1..Len(s) : s[i] \notin chars} IN
    IF stay = {} THEN <<>>
    ELSE SubSeq(s, 1, CHOOSE i \in stay : \A j \in stay : i >= j)
strip(s) == rstrip(lstrip(s, Whitespace), Whitespace)

\* md.splitlines(): the pieces between the newlines, none after a final one
splitlines(s) ==
    LET nl == {i \in 1..Len(s) : s[i] = "\n"}
        \* position of the k-th newline, Len(s) + 1 past the last
        at(k) == IF k = 0 THEN 0
                 ELSE IF k > Cardinality(nl) THEN Len(s) + 1
                 ELSE CHOOSE i \in nl : Cardinality({j \in nl : j < i}) = k - 1
        n == Cardinality(nl) + (IF s = <<>> \/ s[Len(s)] = "\n" THEN 0 ELSE 1)
    IN [k \in 1..n |-> SubSeq(s, at(k - 1) + 1, at(k) - 1)]

\* the loop of lines 245-253 from line i on
RECURSIVE scan(_, _, _, _)
scan(lines, i, title, summary) ==
    IF i > Len(lines) \/ (title # <<>> /\ summary # <<>>)
    THEN [title |-> title, summary |-> summary]
    ELSE IF title = <<>> /\ startswith(lines[i], <<"#", " ">>)
    THEN scan(lines, i + 1, strip(lstrip(lines[i], {"#", " "})), summary)
    ELSE IF summary = <<>> /\ startswith(lstrip(lines[i], Whitespace), <<">", " ">>)
    THEN scan(lines, i + 1, title,
              LET l == lstrip(lines[i], Whitespace) IN strip(SubSeq(l, 3, Len(l))))
    ELSE scan(lines, i + 1, title, summary)

\* lines 258-267: the first non-empty line that is no heading and no image
fallback_summary(md) ==
    LET lines == SelectSeq(splitlines(md), LAMBDA l : strip(l) # <<>>)
        ok == {i \in 1..Len(lines) :
                 ~startswith(lines[i], <<"#">>) /\ ~startswith(lines[i], <<"!", "[">>)}
    IN IF ok = {} THEN \* 'Read the latest insights.'
            <<"R", "e", "a", "d", " ", "t", "h", "e", " ", "l", "a", "t", "e", "s", "t",
              " ", "i", "n", "s", "i", "g", "h", "t", "s", ".">>
       ELSE strip(lines[CHOOSE i \in ok : \A j \in ok : i <= j])

\* lines 269-271
snippet_of(summary) ==
    LET cut == rstrip(SubSeq(summary, 1, Min(Len(summary), SnippetLen)), Whitespace) IN
    IF Len(summary) > SnippetLen THEN Append(cut, Ellipsis) ELSE cut

\* random.sample(pool, k): k elements of the pool at k different positions
random_sample_WithReplacement(pool, k) == [1..k -> {pool[i] : i \in DOMAIN pool}]
random_sample(pool, k) ==
    {[j \in 1..k |-> pool[p[j]]] :
        p \in {q \in [1..k -> DOMAIN pool] : \A a, b \in 1..k : a # b => q[a] # q[b]}}

\* ' '.join(chosen)
join(words) ==
    [i \in 1..(2 * Len(words) - 1) |-> IF i % 2 = 1 THEN words[(i + 1) \div 2] ELSE " "]

\* lines 242-273: base
compose_base(topic, url) ==
    LET md == IF topic = None THEN <<>> ELSE topic.s
        found == scan(splitlines(md), 1, <<>>, <<>>)
        title == IF found.title = <<>> \* 'New Article'
                 THEN <<"N", "e", "w", " ", "A", "r", "t", "i", "c", "l", "e">>
                 ELSE found.title
        summary == IF found.summary = <<>> THEN fallback_summary(md) ELSE found.summary
    IN strip(title \o <<" ", EmDash, " ">> \o snippet_of(summary) \o <<" ">> \o url.s)

\* lines 275-276: f"{base}\n{tags}" when random.sample gave chosen
compose_message(base, chosen) == Str(base \o <<"\n">> \o join(chosen))

\* the lines documents are made of: '# T', '> s', a blockquote of 62
\* characters with a space at the 60th, 'p', '![i', '# #'
DocLine(kind) ==
    CASE kind = "H1" -> <<"#", " ", "T">>
      [] kind = "Quote" -> <<">", " ", "s">>
      [] kind = "LongQuote" ->
            <<">", " ">> \o [i \in 1..(SnippetLen - 1) |-> "a"] \o <<" ", "a", "a">>
      [] kind = "Para" -> <<"p">>
      [] kind = "Image" -> <<"!", "[", "i">>
      [] kind = "EmptyH1" -> <<"#", " ", "#">>

RECURSIVE join_lines(_)
join_lines(ls) ==
    IF ls = <<>> THEN <<>>
    ELSE IF Len(ls) = 1 THEN ls[1]
    ELSE ls[1] \o <<"\n">> \o join_lines(Tail(ls))

\* message = compose_social_message(blog_md, post_url or '')
compose_call ==
    /\ pc = "compose" /\ ret = None
    /\ LET base == compose_base(loc.topic, loc.url) IN
       \E chosen \in random_sample(HASHTAGS, Min(SampleSize, Len(HASHTAGS))) :
          ret' = compose_message(base, chosen)
    /\ UNCHANGED <<env, cur, apc, events, loc, depth, liToken, xfile, bfile, now, calls>>
    /\ UNCHANGED <<writable, mainVars, storeVars, trendVars>>

InitCompose ==
    /\ writable = TRUE
    /\ cli = [post |-> Str(<<"hello">>), file |-> None, trends |-> None,
              platform |-> None, readable |-> TRUE, text |-> Str(<<>>)]
    /\ pc = "compose"
    /\ content = None
    /\ platforms = <<>>
    /\ idx = 1
    /\ key = 0
    /\ exitCode = None
    /\ stdout = <<>>
    /\ trace = <<>>
    /\ results = None
    /\ env = <<>>
    /\ cur = "none"
    /\ apc = "idle"
    /\ ret = None
    /\ events = <<>>
    \* topic: None, '' and texts made of the lines above; url: post_url or ''
    /\ LET docs ==
              {None} \cup
              {Str(join_lines([i \in 1..Len(ks) |-> DocLine(ks[i])])) : ks \in
                  { <<>>, <<"H1", "Quote">>, <<"H1", "LongQuote">>, <<"Quote", "H1">>,
                    <<"H1", "Para">>, <<"H1", "Image", "Para">>, <<"H1">>, <<"Para">>,
                    <<"EmptyH1", "H1", "Quote">>, <<"Image">>, <<"Para", "LongQuote">>,
                    <<"H1", "Quote", "Quote">> }}
           urls == {Str(<<>>), Str(<<"h", "t", "t", "p", ":", "/", "/", "b", "/", "1">>)}
       IN loc \in {[topic |-> d, url |-> u] : d \in docs, u \in urls}
    /\ depth = 0
    /\ liToken = None
    /\ xfile = None
    /\ bfile = None
    /\ now = 0
    /\ calls = 0
    /\ InitStoreIdle
    /\ InitTrendIdle

NextCompose == compose_call

SpecCompose == InitCompose /\ [][NextCompose]_vars

(***************************************************************************)
(* crypto_trend_workflow.py: main(), one action per step.  trace is the    *)
(* list of the steps invoked, each with whether it returned (ok) or        *)
(* raised; content is top_topic, loc the blog text and the post URL, ret   *)
(* the message handed to shellcaster.                                      *)
(***************************************************************************)
Step(step, ok) == [step |-> step, ok |-> ok]

\* where main goes after a step: on past it, or out of the process when it
\* raised (sys.exit(1) at lines 445 and 468, the uncaught RuntimeError of
\* generate_blog_with_gemini at line 456)
workflow_after_KeepGoing(step, raised) ==
    CASE step = "identify" -> "w_generate" [] step = "generate" -> "w_publish"
      [] step = "publish" -> "w_broadcast" [] OTHER -> "w_exit"
workflow_after(step, raised) ==
    IF raised THEN "w_exit"
    ELSE CASE step = "identify" -> "w_generate" [] step = "generate" -> "w_publish"
           [] step = "publish" -> "w_broadcast" [] OTHER -> "w_exit"

\* lines 438-452: identify_trending_with_gemini raises (no API key, an API
\* error, two empty answers) or returns its candidates, of which
\* select_topic_interactively takes one; without candidates the topic is ''
workflow_identify ==
    /\ pc = "w_identify"
    /\ \E raised \in BOOLEAN, top_topic \in {Str(<<>>), Str(<<"t1">>)} :
          /\ trace' = Append(trace, Step("identify", ~raised))
          /\ pc' = workflow_after("identify", raised)
          /\ IF raised
             THEN /\ stdout' = Append(stdout, Line("workflow", "Trend identification failed", None))
                  /\ UNCHANGED content
             ELSE /\ stdout' = Append(stdout, Line("workflow", "Selected top topic", top_topic))
                  /\ content' = top_topic
          /\ exitCode' = IF workflow_after("identify", raised) = "w_exit" THEN Num(1) ELSE exitCode
    /\ UNCHANGED <<cli, platforms, idx, key, results>>
    /\ UNCHANGED <<adapterVars, env, writable, storeVars, trendVars>>

\* lines 455-460: generate_blog_with_gemini raises or returns a text, which
\* format_blog_markdown makes begin with a '# ' title line and save_topic_md
\* writes to the archive file (open raises when it cannot)
workflow_generate ==
    /\ pc = "w_generate"
    /\ \E raised \in BOOLEAN,
          blog_md \in {Str(join_lines([i \in 1..Len(ks) |-> DocLine(ks[i])])) :
                          ks \in {<<"H1", "Quote">>, <<"H1", "Para">>}} :
          /\ trace' = Append(trace, Step("generate", ~raised /\ writable))
          /\ pc' = workflow_after("generate", raised \/ ~writable)
          /\ loc' = IF raised \/ ~writable THEN loc ELSE [topic |-> blog_md, url |-> None]
          /\ exitCode' = IF workflow_after("generate", raised \/ ~writable) = "w_exit"
                         THEN Num(1) ELSE exitCode
    /\ UNCHANGED <<cli, content, platforms, idx, key, stdout, results>>
    /\ UNCHANGED <<env, cur, apc, ret, events, depth, liToken, xfile, bfile, now, calls>>
    /\ UNCHANGED <<writable, storeVars, trendVars>>

\* lines 463-468: post_to_blogger raises (blog id, authentication, a status
\* other than 200 or 201) or returns the URL of the post, '' if the answer
\* names none
workflow_publish ==
    /\ pc = "w_publish"
    /\ \E raised \in BOOLEAN,
          post_url \in {Str(<<>>), Str(<<"h", "t", "t", "p", ":", "/", "/", "b", "/", "1">>)} :
          /\ trace' = Append(trace, Step("publish", ~raised))
          /\ pc' = workflow_after("publish", raised)
          /\ IF raised
             THEN /\ stdout' = Append(stdout, Line("workflow", "Blogger post failed", None))
                  /\ UNCHANGED loc
             ELSE /\ stdout' = Append(stdout, Line("workflow", "Blogger post URL", post_url))
                  /\ loc' = [loc EXCEPT !.url = post_url]
          /\ exitCode' = IF workflow_after("publish", raised) = "w_exit" THEN Num(1) ELSE exitCode
    /\ UNCHANGED <<cli, content, platforms, idx, key, results>>
    /\ UNCHANGED <<env, cur, apc, ret, events, depth, liToken, xfile, bfile, now, calls>>
    /\ UNCHANGED <<writable, storeVars, trendVars>>

\* lines 471-472: the message, and shellcaster run on it; what
\* post_to_social_platforms returns is dropped and main returns
workflow_broadcast ==
    /\ pc = "w_broadcast"
    /\ LET base == compose_base(loc.topic, loc.url) IN
       \E chosen \in random_sample(HASHTAGS, Min(SampleSize, Len(HASHTAGS))), posted \in BOOLEAN :
          /\ ret' = compose_message(base, chosen)
          /\ trace' = Append(trace, Step("broadcast", posted))
    /\ pc' = "w_exit"
    /\ exitCode' = Num(0)
    /\ UNCHANGED <<cli, content, platforms, idx, key, stdout, results>>
    /\ UNCHANGED <<env, cur, apc, events, loc, depth, liToken, xfile, bfile, now, calls>>
    /\ UNCHANGED <<writable, storeVars, trendVars>>

InitWorkflow ==
    /\ writable \in BOOLEAN
    /\ cli = [post |-> None, file |-> None, trends |-> None,
              platform |-> None, readable |-> TRUE, text |-> Str(<<>>)]
    /\ pc = "w_identify"
    /\ content = None
    /\ platforms = <<>>
    /\ idx = 1
    /\ key = 0
    /\ exitCode = None
    /\ stdout = <<>>
    /\ trace = <<>>
    /\ results = None
    /\ env = <<>>
    /\ InitAdapterIdle
    /\ InitStoreIdle
    /\ InitTrendIdle

NextWorkflow ==
    \/ workflow_identify
    \/ workflow_generate
    \/ workflow_publish
    \/ workflow_broadcast

SpecWorkflow == InitWorkflow /\ [][NextWorkflow]_vars

(***************************************************************************)
(* Properties.                                                             *)
(***************************************************************************)
Last(s) == s[Len(s)]
PublishIdx == {i \in 1..Len(events) : events[i].ev = "publish"}
Publishes == Cardinality(PublishIdx)
FirstPublish == CHOOSE i \in PublishIdx : \A j \in PublishIdx : i <= j
\* token exchanges a post starts after its first publish request was answered
ReactiveRefreshes ==
    Cardinality({i \in 1..Len(events) :
                   /\ events[i].ev \in {"refresh", "exchange"}
                   /\ PublishIdx # {} /\ i > FirstPublish})
\* main is done with position i of the list
Processed(i) ==
    \E j \in 1..Len(trace) :
       trace[j].pos = i /\ trace[j].what \in {"unsupported", "skipped", "ok", "fail", "raise"}
\* the platform requested at position i of the list, default order included
Requested(i) ==
    IF cli.platform # None /\ cli.platform.s # <<>> THEN Normalize(cli.platform.s[i])
    ELSE <<"facebook", "linkedin", "x", "blogger">>[i]

\* C1: whatever happened to the earlier platforms of the list (unsupported,
\* skipped, (False, msg), an exception), main deals with every position: while
\* the loop runs every position before idx has been dealt with, and the
\* process only exits the loop once all positions have been.
C1_EveryPlatformProcessed ==
    /\ pc \in {"loop", "check", "call", "adapter"} =>
          idx <= Len(platforms) + 1 /\ \A i \in 1..(idx - 1) : Processed(i)
    /\ (pc = "exit" /\ content # None) => \A i \in 1..Len(platforms) : Processed(i)

\* a run in which a post raised and main still called a later platform
C1_Witness ==
    /\ pc = "exit"
    /\ \E j \in 1..Len(trace), k \in 1..Len(trace) :
          /\ j < k
          /\ trace[j].what = "raise"
          /\ trace[k].what = "call"

\* a required credential value is usable: set, non-empty, without 'your_'
Usable(v) == v # None /\ v.s # <<>> /\ \A i \in 1..Len(v.s) : v.s[i] # "your_"
AllCredsUsable(platform) ==
    \A k \in 1..Len(creds(platform)) :
       creds(platform)[k] \in DOMAIN env /\ Usable(env[creds(platform)[k]])
SomeCredUnusable(platform) ==
    \E k \in 1..Len(creds(platform)) :
       creds(platform)[k] \in DOMAIN env /\ ~Usable(env[creds(platform)[k]])

\* C2: post is called for a position exactly when its platform is known and
\* every required credential is usable; a known platform with an unusable
\* credential is skipped with a yellow line and gets no call, an unknown one
\* gets no call either.
C2_InvokeIffCredentialsOk ==
    \A j \in 1..Len(trace) :
       LET t == trace[j] IN
       /\ t.what = "call" => t.platform \in Known_Platforms /\ AllCredsUsable(t.platform)
       /\ t.what = "skipped" =>
             /\ t.platform \in Known_Platforms /\ SomeCredUnusable(t.platform)
             /\ \E l \in 1..Len(stdout) :
                   stdout[l] = Line("yellow", "skip", Str(<<t.platform>>))
       /\ t.what = "unsupported" => t.platform \notin Known_Platforms
       /\ t.what \in {"skipped", "unsupported"} =>
             \A k \in 1..Len(trace) : trace[k].pos = t.pos => k = j

\* a run that called one platform and skipped another for a placeholder value
C2_Witness ==
    /\ \E j \in 1..Len(trace) : trace[j].what = "call"
    /\ \E j \in 1..Len(trace) :
          /\ trace[j].what = "skipped"
          /\ \E k \in 1..Len(creds(trace[j].platform)) :
                LET name == creds(trace[j].platform)[k] IN
                name \in DOMAIN env /\ env[name] = Str(<<"set_", "your_", "key">>)

\* C3 (as claimed): post of an adapter never raises; whatever fails inside
\* comes back as (False, message).
C3_PostNeverRaises == apc = "done" => ret.kind # "raise"

\* every publish request of the call was rejected for authentication and
\* every token exchange of the call succeeded
AlwaysRejected ==
    /\ PublishIdx # {}
    /\ \A i \in 1..Len(events) :
          /\ events[i].ev = "publish" => events[i].res = "auth"
          /\ events[i].ev \in {"refresh", "exchange", "accounts", "authorize"} =>
                events[i].res = "ok"

\* C4 (as claimed): when the provider rejects every publish request for
\* authentication and the refresh exchanges succeed, a post call refreshes
\* exactly once, sends the publish request exactly twice and returns
\* (False, message).
C4_OneRefreshOneRetry ==
    (apc = "done" /\ AlwaysRejected) =>
        ReactiveRefreshes = 1 /\ Publishes = 2 /\ ret.kind = "fail"

\* C5 (as claimed): one top-level linkedin.post sends at most two ugcPosts
\* requests.
C5_AtMostTwoUgcPosts == cur = "linkedin" => Publishes <= 2

\* C6: facebook.post sends the feed POST at most twice and runs the refresh
\* chain at most once; a second POST comes only after the chain's page lookup
\* returned a token, carries that token, ends the call, and a second POST
\* that fails makes the call return (False, message).
C6_FacebookRetry ==
    cur = "facebook" =>
        /\ Publishes <= 2
        /\ Cardinality({i \in 1..Len(events) : events[i].ev = "exchange"}) <= 1
        /\ Cardinality({i \in 1..Len(events) : events[i].ev = "accounts"}) <= 1
        /\ \A i \in PublishIdx : i # FirstPublish =>
              /\ \E j \in 1..(i - 1) :
                    /\ events[j].ev = "accounts" /\ events[j].res = "ok"
                    /\ events[i].sent = events[j].got
              /\ i = Len(events)
              /\ apc = "done"
              /\ events[i].res # "ok" => ret.kind = "fail"

\* facebook.post retried after a refresh and the retry failed too
C6_Witness ==
    /\ cur = "facebook" /\ apc = "done"
    /\ Publishes = 2
    /\ Last(events).res = "auth"
    /\ ret.kind = "fail"

\* C7 (as claimed): a publish request carries the token or session the
\* authentication step of the same call produced; a call whose credentials
\* are missing or whose authentication fails returns (False, message) and
\* sends no publish request.
C7_NoPublishWithoutAuth ==
    /\ \A i \in PublishIdx : events[i].sent # None /\ events[i].sent.s # <<>>
    /\ (apc = "done" /\ loc.session = None) =>
          /\ ret.kind = "fail"
          /\ events # <<>> => Last(events).ev # "publish"

\* C8: a publish request that ends in a timeout or connection error is the
\* last network call of the post call: no token refresh and no second
\* publish request follow, and the call returns (False, message).
C8_NetworkErrorIsTerminal ==
    \A i \in PublishIdx :
       events[i].res = "exc" => i = Len(events) /\ apc = "done" /\ ret.kind = "fail"

\* a linkedin.post whose retry after a reactive refresh hit a network error
C8_Witness ==
    /\ cur = "linkedin" /\ apc = "done"
    /\ Publishes = 2
    /\ Last(events).ev = "publish" /\ Last(events).res = "exc"

\* the content cannot be loaded: no --post text and no usable --file
ContentLoadFails ==
    /\ cli.trends = None
    /\ cli.post = None \/ cli.post.s = <<>>
    /\ \/ cli.file = None
       \/ cli.file.s = <<>>
       \/ cli.file.s[Len(cli.file.s)] # ".md"
       \/ ~cli.readable

\* C9: the process exits 1 exactly when the content cannot be loaded and 0
\* in every other run, whatever the platforms did.
C9_ExitStatus ==
    IF pc = "exit" THEN exitCode = Num(IF ContentLoadFails THEN 1 ELSE 0)
    ELSE exitCode = None

\* a run that exits 0 although no platform succeeded: one raised, one was skipped
C9_Witness ==
    /\ pc = "exit" /\ exitCode = Num(0)
    /\ \A j \in 1..Len(trace) : trace[j].what # "ok"
    /\ \E j \in 1..Len(trace) : trace[j].what = "raise"
    /\ \E j \in 1..Len(trace) : trace[j].what = "skipped"

\* C10: main goes through the requested list in its order (the default list
\* being facebook, linkedin, x, blogger), and a post call is followed by its
\* own return or exception before anything else happens: calls never overlap
\* and the call for a later position never precedes one for an earlier.
C10_SequentialInListOrder ==
    /\ \A j \in 1..Len(trace) : trace[j].platform = Requested(trace[j].pos)
    /\ \A j \in 1..Len(trace), k \in 1..Len(trace) :
          j < k => /\ trace[j].pos <= trace[k].pos
                   /\ (trace[j].what = "call" /\ trace[k].what = "call") =>
                         trace[j].pos < trace[k].pos
    /\ \A j \in 1..Len(trace) :
          trace[j].what = "call" =>
             IF j = Len(trace) THEN pc = "adapter"
             ELSE /\ trace[j + 1].pos = trace[j].pos
                  /\ trace[j + 1].what \in {"ok", "fail", "raise"}
    /\ pc = "adapter" => trace # <<>> /\ Last(trace).what = "call"

\* a run over the default list in which x and then blogger were called
C10_Witness ==
    /\ pc = "exit" /\ cli.platform = None
    /\ \E j \in 1..Len(trace), k \in 1..Len(trace) :
          /\ j < k
          /\ trace[j] = Did(3, "x", "call")
          /\ trace[k] = Did(4, "blogger", "call")

\* C11 (as claimed): when a run that loaded its content ends, results holds
\* one entry per requested platform, in list order.
C11_ResultsPerPlatform ==
    (pc = "exit" /\ content # None) =>
        /\ DOMAIN results = 1..Len(platforms)
        /\ \A i \in 1..Len(platforms) : results[i].platform = platforms[i]

\* C12 (as claimed): standard output holds exactly one line per platform
\* main has dealt with, whatever the platforms' outcomes.
C12_OneLinePerPlatform ==
    (pc \in {"loop", "exit"} /\ content # None) =>
        Len(stdout) = (IF pc = "exit" THEN Len(platforms) ELSE idx - 1)

\* the value the .env file binds name to (its last binding), None without one
FileValue(file, name) ==
    getenv(load_dotenv(<<>>, file, 1), name)
\* what get_env(name) would return if it were called now
GetValue(e, file, loaded, name) == getenv(ensure_env_loaded(e, file, loaded), name)

\* C13 (as claimed): get_env(name) returns the value of the most recent
\* set_env(name, v) that returned, and the .env file binds name to that value.
C13_GetReturnsLastSet ==
    (pc = "store" /\ ret # None /\ ret.op = "get" /\ ret.name \in DOMAIN stored) =>
        /\ ret.value = stored[ret.name]
        /\ FileValue(dotenv, ret.name) = stored[ret.name]

\* C14 (as claimed): a set_env on one name changes, for every other name,
\* neither the lines of the .env file that bind it nor the value get_env
\* returns for it.
C14_SetLeavesOthers ==
    [][\A n \in StoreNames \cup {"THIRD"} :
          (pc = "store" /\ ret'.op = "set" /\ ret'.name # n) =>
              /\ Len(dotenv'.lines) >= Len(dotenv.lines)
              /\ \A i \in 1..Len(dotenv.lines) :
                    ~StartsWith(dotenv.lines[i], ret'.name) =>
                        dotenv'.lines[i] = dotenv.lines[i]
              /\ \A i \in (Len(dotenv.lines) + 1)..Len(dotenv'.lines) :
                    StartsWith(dotenv'.lines[i], ret'.name)
              /\ FileValue(dotenv', n) = FileValue(dotenv, n)
              /\ GetValue(env', dotenv', _env_loaded', n) = GetValue(env, dotenv, _env_loaded, n)
      ]_vars

\* event i is a token exchange whose answer the adapter saves through set_env
SavedThroughSetEnv(i) ==
    \/ cur = "facebook" /\ events[i].ev = "accounts" /\ events[i].res = "ok"
    \/ /\ cur = "linkedin" /\ events[i].ev \in {"refresh", "authorize"}
       /\ events[i].res = "ok" /\ events[i].got # None

\* C15: when .env cannot be written, set_env raises; a post call whose token
\* exchange succeeded then sends no publish request after that exchange and
\* returns (False, message) instead of raising.
C15_UnwritableStoreFailsPost ==
    (~writable /\ cur \in {"facebook", "linkedin"}) =>
        \A i \in 1..Len(events) :
           SavedThroughSetEnv(i) =>
              /\ \A j \in PublishIdx : j < i
              /\ apc = "done" => ret.kind = "fail"

\* facebook.post refreshed after an expired-token error, got a page token and
\* could not store it
C15_Witness ==
    /\ ~writable /\ cur = "facebook" /\ apc = "done"
    /\ Publishes = 1
    /\ Last(events).ev = "accounts" /\ Last(events).res = "ok"
    /\ ret.kind = "fail"

\* the subcode of an error dict: error_subcode when it is there and not 0,
\* else subcode
SubcodeOf(err) ==
    IF err.error_subcode # None /\ err.error_subcode # Num(0) THEN err.error_subcode
    ELSE err.subcode
\* the message says expired, in any case
SaysExpired(err) ==
    /\ err.message # None
    /\ \E i \in 1..Len(err.message.s) :
          err.message.s[i] \in {"expired", "Expired", "EXPIRED"}

\* C16: _should_refresh_token(err) is true exactly when the code is 190, or
\* the subcode is 460, 463 or 467, or the message contains 'expired' in any
\* case; it is false for code 4 with message 'rate limited'.
C16_ShouldRefreshIff ==
    (pc = "pure" /\ ret # None) =>
        /\ ret.value <=> \/ loc.code = Num(190)
                         \/ SubcodeOf(loc) \in {Num(460), Num(463), Num(467)}
                         \/ SaysExpired(loc)
        /\ loc = Err(Num(4), None, None, Str(<<"rate", "limited">>)) => ~ret.value

\* the check answered true for an error whose only sign of expiry is the
\* capitalised word in its message
C16_Witness ==
    /\ pc = "pure" /\ ret # None
    /\ loc = Err(Num(4), None, None, Str(<<"Session", "has", "Expired">>))
    /\ ret.value

\* x.get_authenticated_session has loaded the token file in this call
XLoaded == cur = "x" /\ loc # None /\ loc.tmp # None /\ ~loc.tmp.raised
\* the token it found there, None when there is no file
XStored == loc.tmp.token
\* expires_at is more than 60 seconds after t
FarFromExpiry(tok, t) == tok.expires_at # None /\ tok.expires_at.n > t + Buffer
HasEvent(ev) == \E i \in 1..Len(events) : events[i].ev = ev

\* C17 (as claimed): when the stored X token expires more than 60 seconds
\* from now, the call sends no refresh exchange and every publish request
\* carries the stored access token.
C17_ValidTokenNoRefresh ==
    (XLoaded /\ XStored # None /\ FarFromExpiry(XStored, now)) =>
        /\ ~HasEvent("refresh")
        /\ \A i \in PublishIdx : events[i].sent = XStored.access_token

\* C18: when the stored X token has a refresh value and its expires_at is
\* missing or at most 60 seconds away, the first network call is the refresh
\* exchange and every publish request carries a token that an exchange of
\* this call returned.
C18_ExpiredTokenRefreshedFirst ==
    (XLoaded /\ XStored # None /\ XStored.refresh_token # None
       /\ ~FarFromExpiry(XStored, now)) =>
        /\ events # <<>> => events[1].ev = "refresh"
        /\ apc \in {"x_tweet", "done"} => events # <<>>
        /\ \A i \in PublishIdx :
              \E j \in 1..(i - 1) :
                 /\ events[j].ev \in {"refresh", "authorize"}
                 /\ events[j].res = "ok"
                 /\ events[i].sent = events[j].got

\* a stored token 60 seconds from expiry was refreshed and the tweet sent
\* with the new token
C18_Witness ==
    /\ XLoaded /\ apc = "done" /\ ret.kind = "ok"
    /\ XStored # None /\ XStored.expires_at = Num(now + Buffer)
    /\ Len(events) = 2
    /\ events[1].ev = "refresh" /\ events[1].res = "ok"
    /\ events[2].ev = "publish" /\ events[2].sent = events[1].got

\* the refresh exchange of this call handed a token to get_authenticated_session
XRefreshReturned ==
    \E i \in 1..Len(events) : events[i].ev = "refresh" /\ events[i].res = "ok" /\ writable
\* the stored token cannot be used: too close to expiry, or refused by users/me
XUnusable ==
    \/ ~FarFromExpiry(XStored, now)
    \/ \E i \in 1..Len(events) : events[i].ev = "users_me" /\ events[i].res # "ok"
\* no stored token can be used
XNeedsPkce ==
    \/ XStored = None
    \/ /\ XUnusable
       /\ \/ XStored.refresh_token = None
          \/ HasEvent("refresh") /\ ~XRefreshReturned

RefreshesSinceLastPublish ==
    Cardinality({i \in 1..Len(events) :
                   /\ events[i].ev = "refresh"
                   /\ \A j \in PublishIdx : j < i})

\* C20: a linkedin.post call that begins with a token holding a refresh
\* value has sent a refresh exchange by the time it has its session and is
\* about to send the ugcPosts request; in a nested call this exchange comes
\* on top of the reactive one that preceded the call.
C20_ProactiveRefreshBeforePublish ==
    (cur = "linkedin" /\ apc \in {"li_author", "li_ugc"} /\ loc.fresh # None) =>
        RefreshesSinceLastPublish >= (IF depth > 0 THEN 2 ELSE 1)

\* a nested post call about to publish: a 401, the reactive refresh, then
\* the proactive refresh of the nested call
C20_Witness ==
    /\ cur = "linkedin" /\ apc = "li_ugc" /\ depth = 1
    /\ loc.fresh # None
    /\ Publishes = 1
    /\ RefreshesSinceLastPublish = 2

\* the run has read name and found it unset or empty
ReadUnset(name) == name \in DOMAIN env /\ ~Truthy(env[name])

\* C21 (as claimed): when neither LINKEDIN_ORGANIZATION_URN nor
\* LINKEDIN_AUTHOR_URN is configured, a linkedin.post call makes no network
\* call (no refresh exchange, no authorization, no publish request) and
\* returns (False, message).
C21_NoUrnNoNetworkCall ==
    (cur = "linkedin" /\ ReadUnset("LINKEDIN_ORGANIZATION_URN")
       /\ ReadUnset("LINKEDIN_AUTHOR_URN")) =>
        /\ events = <<>>
        /\ apc = "done" => ret.kind = "fail"

\* C22 (as claimed): a linkedin.post call runs the interactive authorization
\* only as its first step, when the adapter holds no token; it never runs it
\* after a refresh exchange or a publish request of the same call.
C22_InteractiveOnlyOnFirstUse ==
    cur = "linkedin" =>
        \A i \in 1..Len(events) : events[i].ev = "authorize" => i = 1

HeldFromExchange ==
    \E i \in 1..Len(events) :
       /\ events[i].ev \in {"refresh", "authorize", "accounts"}
       /\ events[i].res = "ok"
       /\ events[i].got = loc.session
\* the access token the adapter's persisted storage holds
Persisted ==
    CASE cur = "facebook" -> getenv(env, "FACEBOOK_ACCESS_TOKEN")
      [] cur = "linkedin" -> getenv(env, "LINKEDIN_ACCESS_TOKEN")
      [] cur = "x" -> IF xfile \in {None, Corrupt} THEN None ELSE xfile.access_token
      [] cur = "blogger" -> IF bfile \in {None, Corrupt} THEN None ELSE bfile.token

\* C24 (as claimed): when an adapter is about to send its publish request
\* with a token an exchange of this call returned, its persisted storage
\* holds that token.
C24_PersistedBeforePublish ==
    /\ (cur = "facebook" /\ apc = "fb_retry") => Persisted = loc.fresh
    /\ (apc \in {"li_ugc", "x_tweet", "b_publish"} /\ HeldFromExchange) =>
          Persisted = loc.session

\* the refresh value stored before the process started
PreviousRefresh == Str(<<"oldrefresh">>)
\* a refresh exchange of this call succeeded and its token was stored
RefreshSucceeded ==
    \E i \in 1..Len(events) :
       events[i].ev = "refresh" /\ events[i].res = "ok" /\ events[i].got # None /\ writable

\* C25 (as claimed): after a successful refresh exchange the stored token of
\* x and of linkedin, in memory and persisted, no longer holds the refresh
\* value of the token it replaces.
C25_RefreshSupersedes ==
    /\ (cur = "x" /\ RefreshSucceeded) => xfile.refresh_token # PreviousRefresh
    /\ (cur = "linkedin" /\ RefreshSucceeded /\ liToken # None) =>
          /\ liToken.refresh_token # PreviousRefresh
          /\ getenv(env, "LINKEDIN_REFRESH_TOKEN") # PreviousRefresh

\* this call began with a stored token that has no refresh value
StoredWithoutRefresh ==
    CASE cur = "x" -> XLoaded /\ XStored # None /\ XStored.refresh_token = None
      [] cur = "linkedin" ->
            /\ loc # None /\ loc.fresh = None
            /\ (events # <<>> => events[1].ev # "authorize")
            /\ (events = <<>> => liToken # None)
      [] cur = "blogger" ->
            /\ loc # None /\ loc.tmp \notin {None, Corrupt}
            /\ ~Truthy(loc.tmp.refresh_token)
      [] OTHER -> FALSE
\* that token is expired, or the provider refused it in this call
StoredExpiredOrRejected ==
    \/ cur = "x" /\ XUnusable
    \/ cur = "blogger" /\ ~valid(loc.tmp, now)
    \/ /\ events # <<>> /\ Last(events).ev = "publish" /\ Last(events).res = "auth"
       /\ \A j \in 1..Len(events) : events[j].ev # "authorize"

\* C26: a call of x, linkedin or blogger that begins with a stored token
\* without a refresh value sends no refresh exchange; if that token is
\* expired or refused, the call succeeds only with a token from an
\* interactive authorization of the same call.
C26_NoRefreshValueNoSelfHeal ==
    StoredWithoutRefresh =>
        /\ IF cur = "linkedin"
           THEN \* a nested call: only the reactive refresh that led to it
                RefreshesSinceLastPublish <=
                    (IF depth > 0 /\ apc \in {"li_author", "li_ugc"} THEN 1 ELSE 0)
           ELSE ~HasEvent("refresh")
        /\ (StoredExpiredOrRejected /\ apc = "done" /\ ret.kind = "ok") =>
              \E j \in 1..Len(events) :
                 /\ events[j].ev = "authorize" /\ events[j].res = "ok"
                 /\ Last(events).sent = events[j].got

\* an expired X token without a refresh value: the call went through the
\* PKCE flow and the tweet succeeded with the new token
C26_Witness ==
    /\ cur = "x" /\ StoredWithoutRefresh /\ ~FarFromExpiry(XStored, now)
    /\ apc = "done" /\ ret.kind = "ok"
    /\ Len(events) = 2 /\ events[1].ev = "authorize"

\* C27 (as claimed): every token this process wrote to .x_token.json carries
\* an expires_at.
C27_WrittenTokenHasExpiresAt ==
    (cur = "x" /\ xfile \notin {None, Corrupt} /\ xfile.access_token \in NewTokens) =>
        xfile.expires_at # None

\* fetch_x_trends has returned
TrendsReturned == pc = "t_done"
Range(f) == {f[i] : i \in DOMAIN f}
\* the name contains the keyword, case-insensitively
NameHas(name, kw) == IsIn(str_lower(kw).s, str_lower(name).s)
IsCrypto(t) == \E kw \in Range(crypto_keywords) : NameHas(t.name, kw)
Bare(t) == Trend(t.name, t.url, t.tweet_volume)

\* C28: fetch_x_trends returns exactly the fetched trends whose name contains
\* a configured keyword case-insensitively, each with matched_keywords equal
\* to all the keywords it contains; total_trends is the number fetched and
\* crypto_trends the number returned.
C28_FilterByKeywords ==
    TrendsReturned =>
        /\ ret.total_trends = Len(trends)
        /\ ret.crypto_trends = Len(ret.trends)
        /\ Len(ret.trends) = Cardinality({i \in 1..Len(trends) : IsCrypto(trends[i])})
        /\ {Bare(t) : t \in Range(ret.trends)} = {t \in Range(trends) : IsCrypto(t)}
        /\ \A t \in Range(ret.trends) :
              /\ Range(t.matched_keywords) =
                    {kw \in Range(crypto_keywords) : NameHas(t.name, kw)}
              /\ Len(t.matched_keywords) = Cardinality(Range(t.matched_keywords))
        /\ (~\E i \in 1..Len(trends) : IsCrypto(trends[i])) =>
              ret.crypto_trends = 0 /\ ret.trends = <<>>

\* some but not all fetched trends are returned, one of them for two keywords
C28_Witness ==
    /\ TrendsReturned
    /\ ret.crypto_trends >= 1 /\ ret.crypto_trends < ret.total_trends
    /\ \E t \in Range(ret.trends) : Len(t.matched_keywords) = 2

OAuth1Keys == {"X_CONSUMER_KEY", "X_CONSUMER_SECRET", "X_ACCESS_TOKEN", "X_ACCESS_TOKEN_SECRET"}
LegacyQueried == HasEvent("trends_place")
PrimaryYielded ==
    \E i \in 1..Len(events) :
        /\ events[i].ev = "personalized_trends" /\ events[i].res = "ok"
        /\ events[i].got \notin {None, Num(0)}
GetTrendsReturned == pc \in {"t_filter", "t_done"}

\* C29: get_trends returns at most 10 items, each with name, url and
\* tweet_volume; the legacy endpoint is queried only after the primary one
\* failed or yielded nothing, and only with all four OAuth1 keys present;
\* without the keys the result is the empty list; get_trends returns a list
\* even when getting the session or a request raised.
C29_GetTrendsContract ==
    /\ LegacyQueried =>
          /\ ~PrimaryYielded
          /\ \A k \in OAuth1Keys : k \in DOMAIN env /\ Truthy(env[k])
          /\ \A i \in 1..Len(events) :
                events[i].ev = "personalized_trends" => i < Len(events)
    /\ GetTrendsReturned =>
          /\ Len(trends) <= TrendLimit
          /\ \A i \in 1..Len(trends) : DOMAIN trends[i] = {"name", "url", "tweet_volume"}
          /\ (~LegacyQueried /\ ~PrimaryYielded) => trends = <<>>
          /\ PrimaryYielded => trends # <<>>

\* getting the session raised, the legacy endpoint answered with more than
\* ten trends and get_trends returned ten
C29_Witness ==
    /\ GetTrendsReturned
    /\ xfile = Corrupt /\ ~HasEvent("personalized_trends")
    /\ LegacyQueried /\ Len(trends) = TrendLimit

\* compose_social_message has returned: the message, its first line and the
\* rest after the first newline
Composed == pc = "compose" /\ ret # None
NewlineAt == CHOOSE i \in 1..Len(ret.s) : ret.s[i] = "\n" /\ \A j \in 1..(i - 1) : ret.s[j] # "\n"
FirstLine == SubSeq(ret.s, 1, NewlineAt - 1)
TagLine == SubSeq(ret.s, NewlineAt + 1, Len(ret.s))
\* line is title, ' (em dash) ', snippet and, after one space, the url
\* (nothing after the snippet when the url is ''), the separator at p
FormAt(line, p) ==
    LET urlAt == Len(line) - Len(loc.url.s) + 1
        snippetEnd == IF loc.url.s = <<>> THEN Len(line) ELSE urlAt - 2 IN
    /\ p > 1 /\ SubSeq(line, p, p + 2) = <<" ", EmDash, " ">>
    /\ line[1] \notin Whitespace
    /\ snippetEnd >= p + 3 /\ snippetEnd - (p + 2) <= SnippetLen + 1
    /\ line[p + 3] \notin Whitespace /\ line[snippetEnd] \notin Whitespace
    /\ loc.url.s # <<>> => line[urlAt - 1] = " "
    /\ SubSeq(line, urlAt, Len(line)) = loc.url.s

\* C30: for every document and URL the message is a first line of the form
\* 'title (em dash) snippet url', a newline, and exactly 3 hashtags separated
\* by single spaces, pairwise distinct and all from HASHTAGS.
C30_MessageForm ==
    Composed =>
        /\ \E i \in 1..Len(ret.s) : ret.s[i] = "\n"
        /\ LET line == FirstLine
               tags == TagLine IN
           /\ \E p \in 1..Len(line) : FormAt(line, p)
           /\ Len(tags) = 2 * SampleSize - 1
           /\ \A i \in 1..Len(tags) :
                 IF i % 2 = 1 THEN tags[i] \in Range(HASHTAGS) ELSE tags[i] = " "
           /\ \A i, j \in 1..Len(tags) : (i # j /\ i % 2 = 1 /\ j % 2 = 1) => tags[i] # tags[j]

\* a document with a heading and a blockquote longer than 60 characters,
\* composed with a URL: the snippet was cut and marked
C30_Witness ==
    /\ Composed
    /\ loc.topic # None /\ loc.url.s # <<>>
    /\ SubSeq(FirstLine, 1, 4) = <<"T", " ", EmDash, " ">>
    /\ \E i \in 1..Len(FirstLine) : FirstLine[i] = Ellipsis

\* the summary compose_social_message derives from the document
DocSummary ==
    LET md == IF loc.topic = None THEN <<>> ELSE loc.topic.s
        found == scan(splitlines(md), 1, <<>>, <<>>)
    IN IF found.summary = <<>> THEN fallback_summary(md) ELSE found.summary
\* the first SnippetLen characters and the marker, or the summary as it is
ExactSnippet ==
    IF Len(DocSummary) > SnippetLen
    THEN Append(SubSeq(DocSummary, 1, SnippetLen), Ellipsis)
    ELSE DocSummary

\* C31: the snippet in the message is exactly the first 60 characters of the
\* summary followed by the ellipsis marker when the summary is longer than
\* 60 characters, and the summary unchanged, without marker, otherwise.
C31_SnippetIsFirst60 ==
    Composed =>
        LET line == FirstLine
            snippetEnd == IF loc.url.s = <<>> THEN Len(line)
                          ELSE Len(line) - Len(loc.url.s) - 1
        IN \E p \in 1..(snippetEnd - 3) :
              /\ SubSeq(line, p, p + 2) = <<" ", EmDash, " ">>
              /\ SubSeq(line, p + 3, snippetEnd) = ExactSnippet

StepIdx(step) == {i \in 1..Len(trace) : trace[i].step = step}
Failed(i) == trace[i].step \in {"identify", "generate", "publish"} /\ ~trace[i].ok

\* C32: when topic identification, content generation or the blog publish
\* fails, the process exits non-zero and no later step is invoked; the blog
\* publish is invoked only after identification and generation succeeded,
\* and the social broadcast only after the blog post was published.
C32_FailureStopsTheRun ==
    /\ \A i \in 1..Len(trace) :
          Failed(i) => /\ i = Len(trace)
                       /\ pc = "w_exit" /\ exitCode \notin {None, Num(0)}
    /\ \A i \in StepIdx("publish") :
          /\ \E j \in 1..(i - 1) : trace[j] = Step("identify", TRUE)
          /\ \E j \in 1..(i - 1) : trace[j] = Step("generate", TRUE)
    /\ \A i \in StepIdx("broadcast") :
          \E j \in 1..(i - 1) : trace[j] = Step("publish", TRUE)

\* the blog publish failed after the two steps before it succeeded
C32_Witness ==
    /\ pc = "w_exit" /\ exitCode = Num(1)
    /\ trace = <<Step("identify", TRUE), Step("generate", TRUE), Step("publish", FALSE)>>

\* the publish requests of x.post
XPublishIdx == {i \in 1..Len(events) : cur = "x" /\ pc = "direct" /\ events[i].ev = "publish"}

\* C33: the text x.post sends is the first 280 characters of the input: never
\* longer than 280, and the input itself when that has at most 280.
C33_TweetIsFirst280 ==
    \A i \in XPublishIdx :
        LET text == events[i].text.s IN
        /\ Len(text) <= TweetLimit
        /\ Len(text) = IF Len(content.s) <= TweetLimit THEN Len(content.s) ELSE TweetLimit
        /\ \A j \in 1..Len(text) : text[j] = content.s[j]
        /\ Len(content.s) <= TweetLimit => events[i].text = content

\* a text of 281 characters was sent as its first 280
C33_Witness ==
    \E i \in XPublishIdx :
        Len(content.s) = TweetLimit + 1 /\ Len(events[i].text.s) = TweetLimit

\* FACEBOOK_ACCESS_TOKEN as the Credential Store gives it now
FbStored == getenv(env, "FACEBOOK_ACCESS_TOKEN")
\* the refresh chain of this call went through: a retry is due or was sent
FbChainSucceeded == apc = "fb_retry" \/ Publishes = 2

\* C34: once the refresh chain has succeeded, and before the retry POST is
\* sent, FACEBOOK_ACCESS_TOKEN in the Credential Store is the new page token;
\* as long as it has not (a prerequisite missing, no token from the exchange,
\* the page not in the list, an exception) FACEBOOK_ACCESS_TOKEN is what it
\* was and no retry POST is sent.
C34_StoreFollowsRefreshChain ==
    (cur = "facebook" /\ Publishes >= 1) =>
        IF FbChainSucceeded
        THEN \E j \in 1..Len(events) :
                /\ events[j].ev = "accounts" /\ events[j].res = "ok"
                /\ FbStored = events[j].got
        ELSE /\ FbStored = events[FirstPublish].sent
             /\ Publishes = 1

\* C35: when the feed POST is answered with a non-200 response that
\* _should_refresh_token does not classify as an expiry (an unparseable body
\* included), facebook.post starts no refresh chain, sends no second POST,
\* writes nothing to the Credential Store and returns (False, message) with
\* the provider's response body in the message.
C35_ProviderErrorIsTerminal ==
    (cur = "facebook" /\ Publishes >= 1 /\ events[FirstPublish].res = "error") =>
        /\ apc = "done" /\ ret = Ret("fail", "Error")
        /\ Len(events) = 1
        /\ FbStored = events[FirstPublish].sent

BothSetsReturned == pc = "race" /\ loc[1].at = "done" /\ loc[2].at = "done"

\* C36: when two actors have run set_env concurrently on the same .env file
\* with different names and both calls have returned, the file binds both
\* names to the values set: no update is lost.
C36_NoLostUpdate ==
    BothSetsReturned =>
        /\ FileValue(dotenv, "NAME") = stored["NAME"]
        /\ FileValue(dotenv, "OTHER") = stored["OTHER"]

\* the environment post ran in lets platform_credentials_ok(p) pass: no key of
\* creds(p) was read as missing or as a placeholder (a key post never read
\* may hold any value, a configured one included)
CheckPasses(p) ==
    \A i \in 1..Len(creds(p)) :
       creds(p)[i] \in DOMAIN env => ~CredBad(env[creds(p)[i]])

\* post returned (False, msg) because a value it read was not configured
FailedForMissing ==
    /\ apc = "done"
    /\ ret.kind = "fail"
    /\ \/ cur = "x" /\ (ReadUnset("X_CLIENT_ID") \/ ReadUnset("X_CLIENT_SECRET"))
       \/ cur = "blogger" /\ (\/ ReadUnset("BLOGGER_BLOG_ID")
                              \/ ReadUnset("GOOGLE_CLIENT_ID")
                              \/ ReadUnset("GOOGLE_CLIENT_SECRET"))
       \/ cur = "linkedin" /\ ReadUnset("LINKEDIN_ORGANIZATION_URN")
                           /\ ReadUnset("LINKEDIN_AUTHOR_URN")

\* C37 (as claimed): when the dispatcher's credential check passes for a
\* platform, the adapter finds every value it reads at publish time: post
\* never fails for a missing credential after the check passed.
C37_CheckedMeansConfigured ==
    CheckPasses(cur) => ~FailedForMissing

\* the names under which the store keeps access and refresh tokens
TokenNames ==
    {"FACEBOOK_ACCESS_TOKEN", "LINKEDIN_ACCESS_TOKEN", "LINKEDIN_REFRESH_TOKEN",
     "X_ACCESS_TOKEN", "X_ACCESS_TOKEN_SECRET", "BLOGGER_ACCESS_TOKEN"}

\* line i of standard output shows the value a token has in the store: a run
\* with another value of that token prints another line i
ShowsToken(i) ==
    \/ /\ stdout[i].what \in TokenNames \cap DOMAIN env
       /\ Truthy(stdout[i].val)
       /\ stdout[i].val = env[stdout[i].what]
    \/ /\ stdout[i].what = "LinkedIn token"
       /\ Truthy(stdout[i].val)

\* C38 (as claimed): the standard output of a dispatcher run does not depend
\* on the values of stored secrets: no line of it shows the value of an access
\* or refresh token, so two runs that differ only in those values print the
\* same.
C38_StdoutIndependentOfTokens ==
    \A i \in 1..Len(stdout) : ~ShowsToken(i)

\* C39 (as claimed): if set_env(name, v) fails because the .env file cannot be
\* written, the store is unchanged: the file keeps its content and a later
\* get_env(name) in the same process returns what it returned before the
\* failed set.
C39_FailedSetChangesNothing ==
    [][(pc = "store" /\ ret'.op = "set" /\ ~ret'.ok) =>
          /\ dotenv' = dotenv
          /\ GetValue(env', dotenv', _env_loaded', ret'.name)
                = GetValue(env, dotenv, _env_loaded, ret'.name)]_vars

\* the last request of this linkedin.post call was a token exchange whose
\* token was saved: _save_token returned and self.token is the new token
LiTokenSaved ==
    /\ cur = "linkedin" /\ events # <<>> /\ writable /\ liToken # None
    /\ LET last == events[Len(events)] IN
          last.ev \in {"refresh", "authorize"} /\ last.res = "ok" /\ last.got # None

\* C40 (as claimed): after every LinkedIn token save (authorization or refresh
\* exchange) the in-memory token and the store agree: LINKEDIN_ACCESS_TOKEN is
\* the in-memory access value, and LINKEDIN_REFRESH_TOKEN is present in the
\* store exactly when the in-memory token has a refresh value, with that value.
C40_MemoryAgreesWithStore ==
    LiTokenSaved =>
        /\ getenv(env, "LINKEDIN_ACCESS_TOKEN") = liToken.access_token
        /\ IF liToken.refresh_token # None
           THEN getenv(env, "LINKEDIN_REFRESH_TOKEN") = liToken.refresh_token
           ELSE ~Truthy(getenv(env, "LINKEDIN_REFRESH_TOKEN"))

====
